---- MODULE Spec2Model ----
(***************************************************************************)
(* Curve Chaos: the frame-driven simulation core (player update, collision *)
(* check, power-up effects, pause bookkeeping) and the round / session     *)
(* scoring state machine of main.ts and player.ts.                         *)
(*                                                                         *)
(* Units.  Lengths are tenths of a pixel (radius 5 px = 50), times are     *)
(* milliseconds, headings are multiples of turnSpeed = PI/60, so a full    *)
(* turn is 120 steps.  Speed multipliers are percentages.                  *)
(***************************************************************************)
EXTENDS Integers, Sequences, FiniteSets, TLC

VARIABLES
    players,              \* Player[]; index i holds the player with id i
    gameState,            \* GameState
    selectedGameMode,     \* GameMode; "null" when none is selected
    selectedPlayerCount,
    activePowerups,       \* Powerup[]
    nextPowerupId,
    lastPowerupSpawnTime,
    eliminationOrder,
    pauseStartTime,       \* number | null
    waitingForKeyBinding, \* {playerId, direction} | null
    lastScores,           \* map id -> score, as a function on its key set
    playerControls,       \* map id -> {left, right}
    keyStates,            \* the set of keys whose keyStates entry is true
    now,                  \* the clock read by performance.now() and the frame timestamp
    finalRanking,         \* gameLoop's finalRanking of the last round end
    playClock,            \* history: time elapsed while the game was not Paused
    roundFrames,          \* history: frames run since the round was initialized
    spawnClock,           \* history: playClock at the round's last spawn or, before it, first Arcade frame
    lastFrame,            \* history: what the last step did, when it was a Running frame
    lastResume            \* history: the paused duration, when the last step was a resume

vars == <<players, gameState, selectedGameMode, selectedPlayerCount, activePowerups,
          nextPowerupId, lastPowerupSpawnTime, eliminationOrder, pauseStartTime,
          waitingForKeyBinding, lastScores, playerControls, keyStates, now,
          finalRanking, playClock, roundFrames, spawnClock, lastFrame,
          lastResume>>

------------------------------------------------------------------------------

(* Program constants *)

PLAYER_SPEED == 20               \* speed: 2 px per frame
PLAYER_RADIUS == 50              \* radius: 5 px
FULL_TURN == 120                 \* 2*PI in units of turnSpeed = PI/60
SAFE_ZONE_BUFFER == 1146         \* 2 * 3 / (PI/60) = 114.59 px
LEADERBOARD_WIDTH == 2500
PADDING == 150
POWERUP_SPAWN_INTERVAL == 3000
POWERUP_DEFAULT_RADIUS == 100    \* POWERUP_CONSTANTS.DEFAULT_RADIUS: 10 px
POWERUP_SPAWN_MARGIN == 200      \* spawnPowerup's margin = POWERUP_RADIUS * 2
DEFAULT_LIFETIME_MS == 10000
SPEED_BOOST_MULTIPLIER == 150    \* 1.5
SLOW_OTHERS_MULTIPLIER == 70     \* 0.7
HOLE_DURATION_FRAMES == 11
SKIP_SEGMENTS == 20
WIN_SCORE == 30
WIN_DIFFERENCE == 2
MAX_PLAYERS == 4
DEFAULT_PLAYER_COUNT == 2

(* The browser window: canvas.clientWidth and canvas.clientHeight *)
ClientWidth == 2900
ClientHeight == 3000

Null == "null"                  \* the null game mode
NoTime == -1                    \* the null pauseStartTime
NoBinding == [playerId |-> 0, direction |-> "none"]   \* the null waitingForKeyBinding

TimedKinds == {"SPEED_BOOST", "SLOW_OTHERS", "THIN_TRAIL", "INVINCIBLE",
               "REVERSE_CONTROLS", "GHOST_MODE", "THICK_TRAIL"}
PowerupTypes == TimedKinds \cup {"CLEAR_OWN_TRAIL", "RANDOM_TELEPORT"}

DURATION_MS(kind) ==
    CASE kind = "SPEED_BOOST" -> 5000
      [] kind = "SLOW_OTHERS" -> 5000
      [] kind = "THIN_TRAIL" -> 10000
      [] kind = "INVINCIBLE" -> 3000
      [] kind = "REVERSE_CONTROLS" -> 5000
      [] kind = "GHOST_MODE" -> 4000
      [] kind = "THICK_TRAIL" -> 8000

\* variant: the last rank earns a point too
pointsAwardedLastRankPaid == <<3, 2, 1, 1>>

pointsAwarded == <<3, 2, 1, 0>>

defaultControls ==
    <<[left |-> "arrowleft", right |-> "arrowright"],
      [left |-> "a", right |-> "d"],
      [left |-> "j", right |-> "l"],
      [left |-> "numpad4", right |-> "numpad6"]>>

------------------------------------------------------------------------------
(* Arithmetic and geometry *)

Min(a, b) == IF a <= b THEN a ELSE b
Max(a, b) == IF a >= b THEN a ELSE b

\* n / d rounded to the nearest integer (d > 0)
RoundDiv(n, d) ==
    IF n >= 0 THEN (2 * n + d) \div (2 * d) ELSE -((2 * (-n) + d) \div (2 * d))

\* 1000 * cos(k * 3 degrees), k = 0..30
CosTable ==
    <<1000, 999, 995, 988, 978, 966, 951, 934, 914, 891, 866, 839, 809, 777, 743,
      707, 669, 629, 588, 545, 500, 454, 407, 358, 309, 259, 208, 156, 105, 52, 0>>

Cos1000(a) ==
    IF a <= 30 THEN CosTable[a + 1]
    ELSE IF a <= 60 THEN -CosTable[(60 - a) + 1]
    ELSE IF a <= 90 THEN -CosTable[(a - 60) + 1]
    ELSE CosTable[(120 - a) + 1]

Sin1000(a) == Cos1000((a + 90) % 120)

playableWidth == ClientWidth - LEADERBOARD_WIDTH - (2 * PADDING)

Gap == [gap |-> TRUE, x |-> 0, y |-> 0]
Point(x, y) == [gap |-> FALSE, x |-> x, y |-> y]

NoEffects == [k \in TimedKinds |-> 0]

Last(s) == s[Len(s)]

Reverse(s) == [i \in 1..Len(s) |-> s[Len(s) + 1 - i]]

------------------------------------------------------------------------------
(* player.ts *)

createPlayer(id, x, y, angle, initialScore) ==
    [id |-> id, x |-> x, y |-> y, angle |-> angle,
     path |-> <<Point(x, y)>>,
     isAlive |-> TRUE, score |-> initialScore,
     isMakingHole |-> FALSE, holeTimer |-> 0,
     activeEffects |-> NoEffects]

\* variant: no effect is ever removed
ExpireEffectsNever(effects, t) == effects

\* updatePlayer's "Check for Expired Effects" loop at time t
ExpireEffects(effects, t) ==
    [k \in TimedKinds |-> IF effects[k] # 0 /\ t >= effects[k] THEN 0 ELSE effects[k]]

\* the effective speed of a player with these effects
EffectiveSpeed(effects) ==
    LET s1 == IF effects["SPEED_BOOST"] # 0
              THEN (PLAYER_SPEED * SPEED_BOOST_MULTIPLIER) \div 100 ELSE PLAYER_SPEED
    IN  IF effects["SLOW_OTHERS"] # 0 THEN (s1 * SLOW_OTHERS_MULTIPLIER) \div 100 ELSE s1

\* variant: every update during a hole pushes a gap marker
AppendToPathGapEveryUpdate(path, isMakingHole, x, y) ==
    IF ~isMakingHole THEN Append(path, Point(x, y)) ELSE Append(path, Gap)

\* the path after the move to (x, y)
AppendToPath(path, isMakingHole, x, y) ==
    IF ~isMakingHole THEN Append(path, Point(x, y))
    ELSE IF Len(path) = 0 \/ Last(path) # Gap THEN Append(path, Gap)
    ELSE path

\* variant: the right key is looked at only when the left key is up
updatePlayerLeftFirst(player, keys, controlMap, t, holeDraw) ==
    IF ~player.isAlive THEN player
    ELSE
    LET effects == ExpireEffects(player.activeEffects, t)
        timer1 == IF player.isMakingHole THEN player.holeTimer - 1 ELSE player.holeTimer
        hole1 == player.isMakingHole /\ ~(timer1 <= 0)
        start == ~hole1 /\ holeDraw
        hole2 == hole1 \/ start
        timer2 == IF start THEN HOLE_DURATION_FRAMES ELSE timer1
        controls == controlMap[player.id]
        reversed == effects["REVERSE_CONTROLS"] # 0
        effectiveLeftKey == IF reversed THEN controls.right ELSE controls.left
        effectiveRightKey == IF reversed THEN controls.left ELSE controls.right
        isTurningLeft == effectiveLeftKey \in keys
        isTurningRight == effectiveRightKey \in keys
        angle1 == IF isTurningLeft THEN player.angle - 1
                  ELSE IF isTurningRight THEN player.angle + 1
                  ELSE player.angle
        angle2 == (angle1 + FULL_TURN) % FULL_TURN
        currentSpeed == EffectiveSpeed(effects)
        x2 == player.x + RoundDiv(Cos1000(angle2) * currentSpeed, 1000)
        y2 == player.y + RoundDiv(Sin1000(angle2) * currentSpeed, 1000)
    IN  [player EXCEPT !.activeEffects = effects,
                       !.isMakingHole = hole2,
                       !.holeTimer = timer2,
                       !.angle = angle2,
                       !.x = x2,
                       !.y = y2,
                       !.path = AppendToPath(player.path, hole2, x2, y2)]

\* variant: the update does not return early for a dead player
updatePlayerIgnoringDeath(player, keys, controlMap, t, holeDraw) ==
    LET effects == ExpireEffects(player.activeEffects, t)
        timer1 == IF player.isMakingHole THEN player.holeTimer - 1 ELSE player.holeTimer
        hole1 == player.isMakingHole /\ ~(timer1 <= 0)
        start == ~hole1 /\ holeDraw
        hole2 == hole1 \/ start
        timer2 == IF start THEN HOLE_DURATION_FRAMES ELSE timer1
        controls == controlMap[player.id]
        reversed == effects["REVERSE_CONTROLS"] # 0
        effectiveLeftKey == IF reversed THEN controls.right ELSE controls.left
        effectiveRightKey == IF reversed THEN controls.left ELSE controls.right
        isTurningLeft == effectiveLeftKey \in keys
        isTurningRight == effectiveRightKey \in keys
        angle1 == player.angle - (IF isTurningLeft THEN 1 ELSE 0)
                               + (IF isTurningRight THEN 1 ELSE 0)
        angle2 == (angle1 + FULL_TURN) % FULL_TURN
        currentSpeed == EffectiveSpeed(effects)
        x2 == player.x + RoundDiv(Cos1000(angle2) * currentSpeed, 1000)
        y2 == player.y + RoundDiv(Sin1000(angle2) * currentSpeed, 1000)
    IN  [player EXCEPT !.activeEffects = effects,
                       !.isMakingHole = hole2,
                       !.holeTimer = timer2,
                       !.angle = angle2,
                       !.x = x2,
                       !.y = y2,
                       !.path = AppendToPath(player.path, hole2, x2, y2)]

\* variant: isMakingHole is not cleared when the hole timer runs out
updatePlayerNeverEndingHole(player, keys, controlMap, t, holeDraw) ==
    IF ~player.isAlive THEN player
    ELSE
    LET effects == ExpireEffects(player.activeEffects, t)
        timer1 == IF player.isMakingHole THEN player.holeTimer - 1 ELSE player.holeTimer
        hole1 == player.isMakingHole
        start == ~hole1 /\ holeDraw
        hole2 == hole1 \/ start
        timer2 == IF start THEN HOLE_DURATION_FRAMES ELSE timer1
        controls == controlMap[player.id]
        reversed == effects["REVERSE_CONTROLS"] # 0
        effectiveLeftKey == IF reversed THEN controls.right ELSE controls.left
        effectiveRightKey == IF reversed THEN controls.left ELSE controls.right
        isTurningLeft == effectiveLeftKey \in keys
        isTurningRight == effectiveRightKey \in keys
        angle1 == player.angle - (IF isTurningLeft THEN 1 ELSE 0)
                               + (IF isTurningRight THEN 1 ELSE 0)
        angle2 == (angle1 + FULL_TURN) % FULL_TURN
        currentSpeed == EffectiveSpeed(effects)
        x2 == player.x + RoundDiv(Cos1000(angle2) * currentSpeed, 1000)
        y2 == player.y + RoundDiv(Sin1000(angle2) * currentSpeed, 1000)
    IN  [player EXCEPT !.activeEffects = effects,
                       !.isMakingHole = hole2,
                       !.holeTimer = timer2,
                       !.angle = angle2,
                       !.x = x2,
                       !.y = y2,
                       !.path = AppendToPath(player.path, hole2, x2, y2)]

\* updatePlayer(player, keyStates) at time t; holeDraw is the outcome of
\* Math.random() < HOLE_CHANCE_PER_UPDATE, read only when no hole is in progress
updatePlayer(player, keys, controlMap, t, holeDraw) ==
    IF ~player.isAlive THEN player
    ELSE
    LET effects == ExpireEffects(player.activeEffects, t)
        timer1 == IF player.isMakingHole THEN player.holeTimer - 1 ELSE player.holeTimer
        hole1 == player.isMakingHole /\ ~(timer1 <= 0)
        start == ~hole1 /\ holeDraw
        hole2 == hole1 \/ start
        timer2 == IF start THEN HOLE_DURATION_FRAMES ELSE timer1
        controls == controlMap[player.id]
        reversed == effects["REVERSE_CONTROLS"] # 0
        effectiveLeftKey == IF reversed THEN controls.right ELSE controls.left
        effectiveRightKey == IF reversed THEN controls.left ELSE controls.right
        isTurningLeft == effectiveLeftKey \in keys
        isTurningRight == effectiveRightKey \in keys
        angle1 == player.angle - (IF isTurningLeft THEN 1 ELSE 0)
                               + (IF isTurningRight THEN 1 ELSE 0)
        angle2 == (angle1 + FULL_TURN) % FULL_TURN
        currentSpeed == EffectiveSpeed(effects)
        x2 == player.x + RoundDiv(Cos1000(angle2) * currentSpeed, 1000)
        y2 == player.y + RoundDiv(Sin1000(angle2) * currentSpeed, 1000)
    IN  [player EXCEPT !.activeEffects = effects,
                       !.isMakingHole = hole2,
                       !.holeTimer = timer2,
                       !.angle = angle2,
                       !.x = x2,
                       !.y = y2,
                       !.path = AppendToPath(player.path, hole2, x2, y2)]

\* variant: a hole gives no immunity
IsImmuneByEffectOnly(player) ==
    \/ player.activeEffects["INVINCIBLE"] # 0
    \/ player.activeEffects["GHOST_MODE"] # 0

\* variant: ghost mode gives no immunity
IsImmuneWithoutGhostMode(player) ==
    \/ player.isMakingHole
    \/ player.activeEffects["INVINCIBLE"] # 0

\* checkCollisions' invincibility and ghost-mode checks
IsImmune(player) ==
    \/ player.isMakingHole
    \/ player.activeEffects["INVINCIBLE"] # 0
    \/ player.activeEffects["GHOST_MODE"] # 0

\* variant: a head that touches an edge counts as outside
HitsBoundaryTouching(player, width, height) ==
    \/ player.x - PLAYER_RADIUS <= 0
    \/ player.x + PLAYER_RADIUS >= width
    \/ player.y - PLAYER_RADIUS <= 0
    \/ player.y + PLAYER_RADIUS >= height

\* checkCollisions' boundary check
HitsBoundary(player, width, height) ==
    \/ player.x - PLAYER_RADIUS < 0
    \/ player.x + PLAYER_RADIUS > width
    \/ player.y - PLAYER_RADIUS < 0
    \/ player.y + PLAYER_RADIUS > height

\* variant: the own recent points are tested like all others
HitsTrailOwnPointsIncluded(player, allPlayers) ==
    \E q \in 1..Len(allPlayers) :
        \E i \in 1..Len(allPlayers[q].path) :
            LET point == allPlayers[q].path[i]
                dx == player.x - point.x
                dy == player.y - point.y
            IN  /\ ~point.gap
                /\ dx * dx + dy * dy
                     < (PLAYER_RADIUS + PLAYER_RADIUS) * (PLAYER_RADIUS + PLAYER_RADIUS)

\* variant: a point at exactly the sum of the radii collides
HitsTrailTouching(player, allPlayers) ==
    \E q \in 1..Len(allPlayers) :
        \E i \in 1..Len(allPlayers[q].path) :
            LET other == allPlayers[q]
                point == other.path[i]
                dx == player.x - point.x
                dy == player.y - point.y
            IN  /\ ~(player.id = other.id /\ (i - 1) >= Len(other.path) - SKIP_SEGMENTS)
                /\ ~point.gap
                /\ dx * dx + dy * dy
                     <= (PLAYER_RADIUS + PLAYER_RADIUS) * (PLAYER_RADIUS + PLAYER_RADIUS)

\* checkCollisions' trail check against every path, the own one included
HitsTrail(player, allPlayers) ==
    \E q \in 1..Len(allPlayers) :
        \E i \in 1..Len(allPlayers[q].path) :
            LET other == allPlayers[q]
                point == other.path[i]
                dx == player.x - point.x
                dy == player.y - point.y
            IN  /\ ~(player.id = other.id /\ (i - 1) >= Len(other.path) - SKIP_SEGMENTS)
                /\ ~point.gap
                /\ dx * dx + dy * dy
                     < (PLAYER_RADIUS + PLAYER_RADIUS) * (PLAYER_RADIUS + PLAYER_RADIUS)

checkCollisions(player, width, height, allPlayers) ==
    IF IsImmune(player) THEN FALSE
    ELSE IF HitsBoundary(player, width, height) THEN TRUE
    ELSE HitsTrail(player, allPlayers)

------------------------------------------------------------------------------
(* main.ts: round start, power-ups *)

\* Math.random() * (hi - lo) + lo, for Math.random() = f / 100
RandomBetween(lo, hi, f) == lo + ((hi - lo) * f) \div 100

\* variant: the range is used as computed, without the clamp
SafeZoneUnclamped(width, height) ==
    [minX |-> SAFE_ZONE_BUFFER, maxX |-> width - SAFE_ZONE_BUFFER,
     minY |-> SAFE_ZONE_BUFFER, maxY |-> height - SAFE_ZONE_BUFFER]

\* the spawn range of initializeGame and of RANDOM_TELEPORT
SafeZone(width, height) ==
    LET minX == SAFE_ZONE_BUFFER
        maxX == width - SAFE_ZONE_BUFFER
        minY == SAFE_ZONE_BUFFER
        maxY == height - SAFE_ZONE_BUFFER
    IN  IF minX >= maxX \/ minY >= maxY
        THEN [minX |-> Min(minX, width \div 2), maxX |-> Max(maxX, width \div 2),
              minY |-> Min(minY, height \div 2), maxY |-> Max(maxY, height \div 2)]
        ELSE [minX |-> minX, maxX |-> maxX, minY |-> minY, maxY |-> maxY]

\* previousScores[id] || 0
ScoreOr0(previousScores, id) ==
    IF id \in DOMAIN previousScores THEN previousScores[id] ELSE 0

\* the players initializeGame creates; draws[i] holds the three Math.random()
\* results of player i: fx, fy (percent) and the heading
NewPlayers(playerCount, previousScores, draws) ==
    LET zone == SafeZone(playableWidth, ClientHeight)
    IN  [i \in 1..playerCount |->
            createPlayer(i,
                         RandomBetween(zone.minX, zone.maxX, draws[i].fx),
                         RandomBetween(zone.minY, zone.maxY, draws[i].fy),
                         draws[i].angle,
                         ScoreOr0(previousScores, i))]

\* spawnPowerup at time t; draw holds its Math.random() results
NewPowerup(id, draw, t, played) ==
    [id |-> id,
     type |-> draw.type,
     x |-> RandomBetween(POWERUP_SPAWN_MARGIN, playableWidth - POWERUP_SPAWN_MARGIN, draw.fx),
     y |-> RandomBetween(POWERUP_SPAWN_MARGIN, ClientHeight - POWERUP_SPAWN_MARGIN, draw.fy),
     radius |-> POWERUP_DEFAULT_RADIUS,
     createdAt |-> t,
     born |-> played]      \* history: playClock at creation

\* variant: the last entry is kept whatever it is
ClearedPathKeepingGap(player) ==
    IF Len(player.path) > 0 THEN <<Last(player.path)>>
    ELSE <<Point(player.x, player.y)>>

\* CLEAR_OWN_TRAIL: [path[length - 1] || {x, y}]
ClearedPath(player) ==
    IF Len(player.path) > 0 /\ ~Last(player.path).gap
    THEN <<Last(player.path)>>
    ELSE <<Point(player.x, player.y)>>

\* variant: the target is drawn from the whole field
TeleportedAnywhere(player, draw) ==
    LET newX == RandomBetween(0, playableWidth, draw.fx)
        newY == RandomBetween(0, ClientHeight, draw.fy)
    IN  [player EXCEPT !.x = newX, !.y = newY,
                       !.path = IF Len(player.path) = 0
                                THEN player.path
                                ELSE [player.path EXCEPT ![Len(player.path)] = Point(newX, newY)]]

\* RANDOM_TELEPORT: the new position and the overwritten last path entry
Teleported(player, draw) ==
    LET zone == SafeZone(playableWidth, ClientHeight)
        newX == RandomBetween(zone.minX, zone.maxX, draw.fx)
        newY == RandomBetween(zone.minY, zone.maxY, draw.fy)
    IN  [player EXCEPT !.x = newX, !.y = newY,
                       !.path = IF Len(player.path) = 0
                                THEN player.path
                                ELSE [player.path EXCEPT ![Len(player.path)] = Point(newX, newY)]]

\* variant: SLOW_OTHERS reaches dead players too
applyPowerupEffectSlowingTheDead(i, powerup, allPlayers, t, teleportDraw) ==
    LET kind == powerup.type
    IN  IF kind = "SLOW_OTHERS"
        THEN [q \in 1..Len(allPlayers) |->
                 IF allPlayers[q].id # allPlayers[i].id
                 THEN [allPlayers[q] EXCEPT !.activeEffects[kind] = t + DURATION_MS(kind)]
                 ELSE allPlayers[q]]
        ELSE IF kind \in TimedKinds
        THEN [allPlayers EXCEPT ![i].activeEffects[kind] = t + DURATION_MS(kind)]
        ELSE IF kind = "CLEAR_OWN_TRAIL"
        THEN [allPlayers EXCEPT ![i].path = ClearedPath(allPlayers[i])]
        ELSE IF kind = "RANDOM_TELEPORT"
        THEN [allPlayers EXCEPT ![i] = Teleported(allPlayers[i], teleportDraw)]
        ELSE allPlayers

\* applyPowerupEffect(allPlayers[i], powerup, allPlayers) at time t
applyPowerupEffect(i, powerup, allPlayers, t, teleportDraw) ==
    LET kind == powerup.type
    IN  IF kind = "SLOW_OTHERS"
        THEN [q \in 1..Len(allPlayers) |->
                 IF allPlayers[q].id # allPlayers[i].id /\ allPlayers[q].isAlive
                 THEN [allPlayers[q] EXCEPT !.activeEffects[kind] = t + DURATION_MS(kind)]
                 ELSE allPlayers[q]]
        ELSE IF kind \in TimedKinds
        THEN [allPlayers EXCEPT ![i].activeEffects[kind] = t + DURATION_MS(kind)]
        ELSE IF kind = "CLEAR_OWN_TRAIL"
        THEN [allPlayers EXCEPT ![i].path = ClearedPath(allPlayers[i])]
        ELSE IF kind = "RANDOM_TELEPORT"
        THEN [allPlayers EXCEPT ![i] = Teleported(allPlayers[i], teleportDraw)]
        ELSE allPlayers

\* the head of player overlaps the power-up
Overlaps(player, powerup) ==
    LET dx == player.x - powerup.x
        dy == player.y - powerup.y
    IN  dx * dx + dy * dy
          < (PLAYER_RADIUS + powerup.radius) * (PLAYER_RADIUS + powerup.radius)

------------------------------------------------------------------------------
(* main.ts: gameLoop *)

\* the lifetime filter at time t
IsFresh(powerup, t) == t - powerup.createdAt < DEFAULT_LIFETIME_MS

DespawnExpired(powerups, t) ==
    LET Keep(powerup) == IsFresh(powerup, t) IN SelectSeq(powerups, Keep)

RemoveCollected(powerups, collectedPowerupIds) ==
    LET Keep(powerup) == powerup.id \notin collectedPowerupIds IN SelectSeq(powerups, Keep)

\* variant: a power-up collected earlier in the frame is not skipped
RECURSIVE CollectPowerupsAgain(_, _, _, _, _, _)
CollectPowerupsAgain(j, i, st, powerups, t, teleportDraw) ==
    IF j > Len(powerups) THEN st
    ELSE
    LET powerup == powerups[j]
    IN  IF Overlaps(st.players[i], powerup)
        THEN CollectPowerupsAgain(j + 1, i,
                 [st EXCEPT !.collected = @ \cup {powerup.id},
                            !.applied = Append(@, [id |-> powerup.id, type |-> powerup.type,
                                                   by |-> st.players[i].id,
                                                   age |-> st.played - powerup.born,
                                                   x |-> powerup.x, y |-> powerup.y,
                                                   radius |-> powerup.radius]),
                            !.players = applyPowerupEffect(i, powerup, st.players, t,
                                                           teleportDraw)],
                 powerups, t, teleportDraw)
        ELSE CollectPowerupsAgain(j + 1, i, st, powerups, t, teleportDraw)

\* the power-up loop of player i over powerups[j..]
RECURSIVE CollectPowerups(_, _, _, _, _, _)
CollectPowerups(j, i, st, powerups, t, teleportDraw) ==
    IF j > Len(powerups) THEN st
    ELSE
    LET powerup == powerups[j]
    IN  IF powerup.id \in st.collected
        THEN CollectPowerups(j + 1, i, st, powerups, t, teleportDraw)
        ELSE IF Overlaps(st.players[i], powerup)
        THEN CollectPowerups(j + 1, i,
                 [st EXCEPT !.collected = @ \cup {powerup.id},
                            !.applied = Append(@, [id |-> powerup.id, type |-> powerup.type,
                                                   by |-> st.players[i].id,
                                                   age |-> st.played - powerup.born,
                                                   x |-> powerup.x, y |-> powerup.y,
                                                   radius |-> powerup.radius]),
                            !.players = applyPowerupEffect(i, powerup, st.players, t,
                                                           teleportDraw)],
                 powerups, t, teleportDraw)
        ELSE CollectPowerups(j + 1, i, st, powerups, t, teleportDraw)

\* variant: an eliminated id is put at the front of the elimination order
RECURSIVE UpdateLoopPrepending(_, _, _, _, _, _, _, _)
UpdateLoopPrepending(i, st, powerups, keys, controlMap, mode, t, draws) ==
    IF i > Len(st.players) THEN st
    ELSE
    LET updated == updatePlayer(st.players[i], keys, controlMap, t, i \in draws.hole)
        st1 == [st EXCEPT !.players[i] = updated]
        st2 == IF ~updated.isAlive THEN st1
               ELSE IF checkCollisions(updated, playableWidth, ClientHeight, st1.players)
               THEN [st1 EXCEPT !.players[i].isAlive = FALSE,
                                !.eliminationOrder = <<updated.id>> \o @]
               ELSE IF mode = "Arcade"
               THEN CollectPowerups(1, i, st1, powerups, t, draws.teleport)
               ELSE st1
        st3 == IF st2.players[i].isAlive THEN [st2 EXCEPT !.living = @ + 1] ELSE st2
    IN  UpdateLoopPrepending(i + 1, st3, powerups, keys, controlMap, mode, t, draws)

\* the body of "for (const player of currentPlayers)" for players i..
RECURSIVE UpdateLoop(_, _, _, _, _, _, _, _)
UpdateLoop(i, st, powerups, keys, controlMap, mode, t, draws) ==
    IF i > Len(st.players) THEN st
    ELSE
    LET updated == updatePlayer(st.players[i], keys, controlMap, t, i \in draws.hole)
        st1 == [st EXCEPT !.players[i] = updated]
        st2 == IF ~updated.isAlive THEN st1
               ELSE IF checkCollisions(updated, playableWidth, ClientHeight, st1.players)
               THEN [st1 EXCEPT !.players[i].isAlive = FALSE,
                                !.eliminationOrder = Append(@, updated.id)]
               ELSE IF mode = "Arcade"
               THEN CollectPowerups(1, i, st1, powerups, t, draws.teleport)
               ELSE st1
        st3 == IF st2.players[i].isAlive THEN [st2 EXCEPT !.living = @ + 1] ELSE st2
    IN  UpdateLoop(i + 1, st3, powerups, keys, controlMap, mode, t, draws)

\* variant: the eliminated ids in elimination order
FinalRankingUnreversed(currentPlayers, order) ==
    LET Alive(i) == currentPlayers[i].isAlive
        livingPlayerIds == SelectSeq([i \in 1..Len(currentPlayers) |-> i], Alive)
    IN  [k \in 1..Len(livingPlayerIds) |-> currentPlayers[livingPlayerIds[k]].id] \o order

\* living player ids first, then the elimination order reversed
FinalRanking(currentPlayers, order) ==
    LET Alive(i) == currentPlayers[i].isAlive
        livingPlayerIds == SelectSeq([i \in 1..Len(currentPlayers) |-> i], Alive)
    IN  [k \in 1..Len(livingPlayerIds) |-> currentPlayers[livingPlayerIds[k]].id]
        \o Reverse(order)

\* variant: the table read with the position counted from 1
PointsForOneBased(index) ==
    IF index \in DOMAIN pointsAwarded THEN pointsAwarded[index] ELSE 0

\* pointsAwarded[index] ?? 0, index counted from 0
PointsFor(index) ==
    IF index + 1 \in DOMAIN pointsAwarded THEN pointsAwarded[index + 1] ELSE 0

\* finalRanking.forEach from position k (counted from 1) on
RECURSIVE AwardPoints(_, _, _)
AwardPoints(currentPlayers, ranking, k) ==
    IF k > Len(ranking) THEN currentPlayers
    ELSE
    LET found == {i \in 1..Len(currentPlayers) : currentPlayers[i].id = ranking[k]}
    IN  IF found = {} THEN AwardPoints(currentPlayers, ranking, k + 1)
        ELSE LET i == CHOOSE f \in found : \A g \in found : f <= g
             IN  AwardPoints([currentPlayers EXCEPT ![i].score = @ + PointsFor(k - 1)],
                             ranking, k + 1)

ScoresOf(currentPlayers) ==
    [id \in {currentPlayers[i].id : i \in 1..Len(currentPlayers)} |->
        LET i == CHOOSE f \in 1..Len(currentPlayers) :
                     /\ currentPlayers[f].id = id
                     /\ \A g \in f + 1..Len(currentPlayers) : currentPlayers[g].id # id
        IN  currentPlayers[i].score]

\* Object.values(scoreMap).sort((a, b) => b - a)
RECURSIVE SortedDescending(_, _)
SortedDescending(scoreMap, keysLeft) ==
    IF keysLeft = {} THEN <<>>
    ELSE LET top == CHOOSE k \in keysLeft : \A m \in keysLeft : scoreMap[k] >= scoreMap[m]
         IN  <<scoreMap[top]>> \o SortedDescending(scoreMap, keysLeft \ {top})

\* variant: the lead has to exceed WIN_DIFFERENCE
SessionWonStrictLead(scores) ==
    LET highestScore == IF Len(scores) >= 1 THEN scores[1] ELSE 0
        secondHighestScore == IF Len(scores) >= 2 THEN scores[2] ELSE 0
    IN  /\ highestScore >= WIN_SCORE
        /\ (Len(scores) < 2 \/ highestScore > secondHighestScore + WIN_DIFFERENCE)

\* the session win condition on the sorted scores
SessionWon(scores) ==
    LET highestScore == IF Len(scores) >= 1 THEN scores[1] ELSE 0
        secondHighestScore == IF Len(scores) >= 2 THEN scores[2] ELSE 0
    IN  /\ highestScore >= WIN_SCORE
        /\ (Len(scores) < 2 \/ highestScore >= secondHighestScore + WIN_DIFFERENCE)

NoFrame ==
    [ran |-> FALSE, skipped |-> FALSE, despawned |-> {}, applied |-> <<>>,
     roundEnd |-> FALSE]

\* history value after a frame callback that returned at the pause check
SkippedFrame == [NoFrame EXCEPT !.skipped = TRUE]

\* variant: power-ups despawn and spawn whatever the mode
SpawnStageInEveryMode(draws) ==
    LET arcade == gameState = "Running"
        spawnTime == IF lastPowerupSpawnTime = 0 /\ gameState = "Running" THEN now
                     ELSE lastPowerupSpawnTime
        kept == IF arcade THEN DespawnExpired(activePowerups, now) ELSE activePowerups
        spawning == arcade /\ now - spawnTime > POWERUP_SPAWN_INTERVAL
    IN  [spawnTime |-> IF spawning THEN now ELSE spawnTime,
         powerups |-> IF spawning
                      THEN Append(kept, NewPowerup(nextPowerupId, draws.spawn, now, playClock))
                      ELSE kept,
         nextId |-> IF spawning THEN nextPowerupId + 1 ELSE nextPowerupId,
         despawned |-> {activePowerups[j] : j \in 1..Len(activePowerups)}
                         \ {kept[j] : j \in 1..Len(kept)}]

\* the frame's lifetime filter and spawn at time t
SpawnStage(draws) ==
    LET arcade == gameState = "Running" /\ selectedGameMode = "Arcade"
        spawnTime == IF lastPowerupSpawnTime = 0 /\ gameState = "Running" THEN now
                     ELSE lastPowerupSpawnTime
        kept == IF arcade THEN DespawnExpired(activePowerups, now) ELSE activePowerups
        spawning == arcade /\ now - spawnTime > POWERUP_SPAWN_INTERVAL
    IN  [spawnTime |-> IF spawning THEN now ELSE spawnTime,
         powerups |-> IF spawning
                      THEN Append(kept, NewPowerup(nextPowerupId, draws.spawn, now, playClock))
                      ELSE kept,
         nextId |-> IF spawning THEN nextPowerupId + 1 ELSE nextPowerupId,
         despawned |-> {activePowerups[j] : j \in 1..Len(activePowerups)}
                         \ {kept[j] : j \in 1..Len(kept)}]

\* the frame's update block
UpdateStage(spawned, draws) ==
    LET st0 == [players |-> players, eliminationOrder |-> eliminationOrder,
                collected |-> {}, applied |-> <<>>, living |-> 0, played |-> playClock]
    IN  IF gameState = "Running"
        THEN UpdateLoop(1, st0, spawned.powerups, keyStates, playerControls,
                        selectedGameMode, now, draws)
        ELSE st0

\* variant: lastScores is filled with the scores from before the award
RoundResultStaleScores(ranking, scored) ==
    [ranking |-> ranking,
     players |-> scored,
     scoreMap |-> ScoresOf(players),
     won |-> SessionWon(SortedDescending(ScoresOf(scored), DOMAIN ScoresOf(scored)))]

\* the round-end block for this ranking and these scored players
RoundResult(ranking, scored) ==
    [ranking |-> ranking,
     players |-> scored,
     scoreMap |-> ScoresOf(scored),
     won |-> SessionWon(SortedDescending(ScoresOf(scored), DOMAIN ScoresOf(scored)))]

RoundEnd(currentPlayers, order) ==
    RoundResult(FinalRanking(currentPlayers, order),
                AwardPoints(currentPlayers, FinalRanking(currentPlayers, order), 1))

\* the frame's assignments, with or without the round-end block
CommitFrame(spawned, st, roundEnd) ==
    /\ lastPowerupSpawnTime' = spawned.spawnTime
    /\ activePowerups' = IF st.collected # {}
                         THEN RemoveCollected(spawned.powerups, st.collected)
                         ELSE spawned.powerups
    /\ nextPowerupId' = spawned.nextId
    /\ eliminationOrder' = st.eliminationOrder
    /\ IF roundEnd
       THEN LET result == RoundEnd(st.players, st.eliminationOrder)
            IN  /\ players' = result.players
                /\ finalRanking' = result.ranking
                /\ lastScores' = result.scoreMap
                /\ gameState' = IF result.won THEN "SessionOver" ELSE "GameOver"
       ELSE /\ players' = st.players
            /\ UNCHANGED <<finalRanking, lastScores, gameState>>
    /\ lastFrame' = [ran |-> gameState = "Running", skipped |-> FALSE,
                     despawned |-> spawned.despawned, applied |-> st.applied,
                     roundEnd |-> roundEnd]
    /\ roundFrames' = IF gameState = "Running" THEN roundFrames + 1 ELSE roundFrames
    /\ spawnClock' = IF gameState = "Running" /\ selectedGameMode = "Arcade"
                         /\ (spawned.nextId # nextPowerupId \/ spawnClock = NoTime)
                      THEN playClock ELSE spawnClock
    /\ lastResume' = NoTime
    /\ UNCHANGED <<selectedGameMode, selectedPlayerCount, pauseStartTime,
                   waitingForKeyBinding, playerControls, keyStates, now, playClock>>

\* variant: the round ends only when no player is left alive
UpdateAndCommitWhenNoneLeft(spawned, st) ==
    CommitFrame(spawned, st,
                gameState = "Running" /\ st.living = 0 /\ Len(st.players) > 1)

\* variant: the round-end block does not ask how many players there were
UpdateAndCommitForAnyCount(spawned, st) ==
    CommitFrame(spawned, st, gameState = "Running" /\ st.living <= 1)

UpdateAndCommit(spawned, st) ==
    CommitFrame(spawned, st,
                gameState = "Running" /\ st.living <= 1 /\ Len(st.players) > 1)

\* one frame callback outside Paused; draws holds the frame's Math.random() results
RunFrame(draws) ==
    UpdateAndCommit(SpawnStage(draws), UpdateStage(SpawnStage(draws), draws))

\* variant: a frame callback that arrives while Paused moves the players
gameLoopUpdatingWhilePaused(draws) ==
    IF gameState = "Paused"
    THEN CommitFrame(SpawnStage(draws),
                     UpdateLoop(1, [players |-> players,
                                    eliminationOrder |-> eliminationOrder,
                                    collected |-> {}, applied |-> <<>>, living |-> 0,
                                    played |-> playClock],
                                SpawnStage(draws).powerups, keyStates, playerControls,
                                selectedGameMode, now, draws),
                     FALSE)
    ELSE RunFrame(draws)

\* gameLoop(timestamp, context, players)
gameLoop(draws) ==
    IF gameState = "Paused"
    THEN /\ lastFrame' = SkippedFrame
         /\ lastResume' = NoTime
         /\ UNCHANGED <<players, gameState, selectedGameMode, selectedPlayerCount,
                        activePowerups, nextPowerupId, lastPowerupSpawnTime,
                        eliminationOrder, pauseStartTime, waitingForKeyBinding,
                        lastScores, playerControls, keyStates, now, finalRanking,
                        playClock, roundFrames,
                   spawnClock>>
    ELSE RunFrame(draws)

------------------------------------------------------------------------------
(* main.ts: input handlers *)

SpaceKeys == {" ", "spacebar"}
SingleCharKeys == {"a", "d", "j", "l", "x"}
ArrowKeys == {"arrowleft", "arrowright"}
NumpadKeys == {"numpad4", "numpad6"}
OtherKeys == {"enter", "escape", "shift"}
Keys == SpaceKeys \cup SingleCharKeys \cup ArrowKeys \cup NumpadKeys \cup OtherKeys

\* key.length === 1 || key.startsWith('arrow') || key.startsWith('numpad')
IsSuitableForBinding(key) == key \in SingleCharKeys \cup ArrowKeys \cup NumpadKeys

setPlayerControl(controlMap, playerId, direction, key) ==
    IF playerId \in DOMAIN controlMap
    THEN IF direction = "left" THEN [controlMap EXCEPT ![playerId].left = key]
         ELSE [controlMap EXCEPT ![playerId].right = key]
    ELSE controlMap

\* variant: the effect timers are left as they were
ShiftEffectsSkipped(effects, pausedDuration) == effects

\* the resume branch's shift of one player's effect timers
ShiftEffects(effects, pausedDuration) ==
    [k \in TimedKinds |-> IF effects[k] # 0 THEN effects[k] + pausedDuration ELSE effects[k]]

\* variant: the creation timestamps are left as they were
ShiftPowerupsSkipped(powerups, pausedDuration) == powerups

\* the resume branch's shift of the power-ups' creation timestamps
ShiftPowerups(powerups, pausedDuration) ==
    [j \in 1..Len(powerups) |-> [powerups[j] EXCEPT !.createdAt = @ + pausedDuration]]

\* variant: the elimination order is not cleared
initializeGameKeepingEliminations(playerCount, previousScores, draws) ==
    /\ players' = NewPlayers(playerCount, previousScores, draws)
    /\ activePowerups' = <<>>
    /\ lastPowerupSpawnTime' = 0
    /\ nextPowerupId' = 0
    /\ eliminationOrder' = eliminationOrder
    /\ gameState' = "Running"
    /\ roundFrames' = 0
    /\ spawnClock' = NoTime

\* variant: the power-ups on the field and the id counter outlive the round
initializeGameKeepingPowerups(playerCount, previousScores, draws) ==
    /\ players' = NewPlayers(playerCount, previousScores, draws)
    /\ lastPowerupSpawnTime' = 0
    /\ eliminationOrder' = <<>>
    /\ gameState' = "Running"
    /\ roundFrames' = 0
    /\ spawnClock' = NoTime
    /\ UNCHANGED <<activePowerups, nextPowerupId>>

\* initializeGame(canvas, playerCount, previousScores)
initializeGame(playerCount, previousScores, draws) ==
    /\ players' = NewPlayers(playerCount, previousScores, draws)
    /\ activePowerups' = <<>>
    /\ lastPowerupSpawnTime' = 0
    /\ nextPowerupId' = 0
    /\ eliminationOrder' = <<>>
    /\ gameState' = "Running"
    /\ roundFrames' = 0
    /\ spawnClock' = NoTime

\* variant: Space and Enter are bound like any other key
BindKeyAnyKey(key) ==
    /\ waitingForKeyBinding' = NoBinding
    /\ playerControls' =
          IF key # "escape"
          THEN setPlayerControl(playerControls, waitingForKeyBinding.playerId,
                                waitingForKeyBinding.direction, key)
          ELSE playerControls
    /\ UNCHANGED <<players, gameState, selectedGameMode, selectedPlayerCount,
                   activePowerups, nextPowerupId, lastPowerupSpawnTime, eliminationOrder,
                   pauseStartTime, lastScores, keyStates, finalRanking, roundFrames,
                   spawnClock>>

\* the key-binding branch of handleKeyDown
BindKey(key) ==
    /\ waitingForKeyBinding' =
          IF key = "escape" THEN NoBinding
          ELSE IF key \in SpaceKeys \/ key = "enter" THEN waitingForKeyBinding
          ELSE IF IsSuitableForBinding(key) THEN NoBinding
          ELSE waitingForKeyBinding
    /\ playerControls' =
          IF key # "escape" /\ key \notin SpaceKeys /\ key # "enter"
             /\ IsSuitableForBinding(key)
          THEN setPlayerControl(playerControls, waitingForKeyBinding.playerId,
                                waitingForKeyBinding.direction, key)
          ELSE playerControls
    /\ UNCHANGED <<players, gameState, selectedGameMode, selectedPlayerCount,
                   activePowerups, nextPowerupId, lastPowerupSpawnTime, eliminationOrder,
                   pauseStartTime, lastScores, keyStates, finalRanking, roundFrames,
                   spawnClock>>

\* variant: the round starts with the default number of players
StartGameWithDefaultCount(draws) ==
    /\ lastScores' = <<>>
    /\ initializeGame(DEFAULT_PLAYER_COUNT, <<>>, draws)
    /\ UNCHANGED <<selectedGameMode, selectedPlayerCount, pauseStartTime,
                   waitingForKeyBinding, playerControls, keyStates, finalRanking>>

\* Space in WaitingToStart with a mode selected
StartGame(draws) ==
    /\ lastScores' = <<>>
    /\ initializeGame(selectedPlayerCount, <<>>, draws)
    /\ UNCHANGED <<selectedGameMode, selectedPlayerCount, pauseStartTime,
                   waitingForKeyBinding, playerControls, keyStates, finalRanking>>

\* Space in Running
Pause ==
    /\ gameState' = "Paused"
    /\ pauseStartTime' = now
    /\ UNCHANGED <<players, selectedGameMode, selectedPlayerCount, activePowerups,
                   nextPowerupId, lastPowerupSpawnTime, eliminationOrder,
                   waitingForKeyBinding, lastScores, playerControls, keyStates,
                   finalRanking, roundFrames,
                   spawnClock>>

\* variant: the resume does not move the spawn reference timestamp
ResumeKeepingSpawnTime ==
    /\ gameState' = "Running"
    /\ IF pauseStartTime # NoTime
       THEN LET pausedDuration == now - pauseStartTime
            IN  /\ players' = [i \in 1..Len(players) |->
                                 [players[i] EXCEPT !.activeEffects =
                                     ShiftEffects(@, pausedDuration)]]
                /\ activePowerups' = ShiftPowerups(activePowerups, pausedDuration)
                /\ pauseStartTime' = NoTime
                /\ UNCHANGED lastPowerupSpawnTime
       ELSE UNCHANGED <<players, activePowerups, lastPowerupSpawnTime, pauseStartTime>>
    /\ UNCHANGED <<selectedGameMode, selectedPlayerCount, nextPowerupId, eliminationOrder,
                   waitingForKeyBinding, lastScores, playerControls, keyStates,
                   finalRanking, roundFrames, spawnClock>>

\* Space in Paused
Resume ==
    /\ gameState' = "Running"
    /\ IF pauseStartTime # NoTime
       THEN LET pausedDuration == now - pauseStartTime
            IN  /\ players' = [i \in 1..Len(players) |->
                                 [players[i] EXCEPT !.activeEffects =
                                     ShiftEffects(@, pausedDuration)]]
                /\ activePowerups' = ShiftPowerups(activePowerups, pausedDuration)
                /\ lastPowerupSpawnTime' = lastPowerupSpawnTime + pausedDuration
                /\ pauseStartTime' = NoTime
       ELSE UNCHANGED <<players, activePowerups, lastPowerupSpawnTime, pauseStartTime>>
    /\ UNCHANGED <<selectedGameMode, selectedPlayerCount, nextPowerupId, eliminationOrder,
                   waitingForKeyBinding, lastScores, playerControls, keyStates,
                   finalRanking, roundFrames,
                   spawnClock>>

\* variant: the restarted round does not receive the previous scores
RestartRoundFromZero(draws) ==
    /\ initializeGame(selectedPlayerCount, <<>>, draws)
    /\ UNCHANGED <<selectedGameMode, selectedPlayerCount, pauseStartTime,
                   waitingForKeyBinding, lastScores, playerControls, keyStates,
                   finalRanking>>

\* variant: Enter in GameOver goes back to the menu instead of starting a round
RestartRoundViaMenu(draws) ==
    /\ gameState' = "WaitingToStart"
    /\ lastScores' = <<>>
    /\ players' = <<>>
    /\ UNCHANGED <<selectedGameMode, selectedPlayerCount, activePowerups, nextPowerupId,
                   lastPowerupSpawnTime, eliminationOrder, pauseStartTime,
                   waitingForKeyBinding, playerControls, keyStates, finalRanking,
                   roundFrames,
                   spawnClock>>

\* Enter in GameOver
RestartRound(draws) ==
    /\ initializeGame(selectedPlayerCount, lastScores, draws)
    /\ UNCHANGED <<selectedGameMode, selectedPlayerCount, pauseStartTime,
                   waitingForKeyBinding, lastScores, playerControls, keyStates,
                   finalRanking>>

\* Enter in SessionOver
ReturnToMenu ==
    /\ gameState' = "WaitingToStart"
    /\ lastScores' = <<>>
    /\ players' = <<>>
    /\ UNCHANGED <<selectedGameMode, selectedPlayerCount, activePowerups, nextPowerupId,
                   lastPowerupSpawnTime, eliminationOrder, pauseStartTime,
                   waitingForKeyBinding, playerControls, keyStates, finalRanking,
                   roundFrames,
                   spawnClock>>

\* keyStates[key] = true
SetKeyState(key) ==
    /\ keyStates' = keyStates \cup {key}
    /\ UNCHANGED <<players, gameState, selectedGameMode, selectedPlayerCount,
                   activePowerups, nextPowerupId, lastPowerupSpawnTime, eliminationOrder,
                   pauseStartTime, waitingForKeyBinding, lastScores, playerControls,
                   finalRanking, roundFrames,
                   spawnClock>>

\* variant: the Space branch comes before the key-binding branch and does not
\* look at waitingForKeyBinding
handleKeyDownSpaceFirst(key, draws) ==
    /\ lastFrame' = NoFrame
    /\ lastResume' = IF key \in SpaceKeys /\ gameState = "Paused" /\ pauseStartTime # NoTime
                     THEN now - pauseStartTime ELSE NoTime
    /\ UNCHANGED <<now, playClock>>
    /\ IF key \in SpaceKeys /\ gameState = "WaitingToStart" /\ selectedGameMode # Null
       THEN StartGame(draws)
       ELSE IF waitingForKeyBinding # NoBinding /\ gameState = "WaitingToStart"
       THEN BindKey(key)
       ELSE IF key \in SpaceKeys /\ gameState = "Running" THEN Pause
       ELSE IF key \in SpaceKeys /\ gameState = "Paused" THEN Resume
       ELSE IF key = "enter" /\ gameState = "GameOver" THEN RestartRound(draws)
       ELSE IF key = "enter" /\ gameState = "SessionOver" THEN ReturnToMenu
       ELSE SetKeyState(key)

\* handleKeyDown(event) for event.key.toLowerCase() = key; draws holds the
\* Math.random() results of initializeGame
handleKeyDown(key, draws) ==
    /\ lastFrame' = NoFrame
    /\ lastResume' = IF key \in SpaceKeys /\ gameState = "Paused" /\ pauseStartTime # NoTime
                     THEN now - pauseStartTime ELSE NoTime
    /\ UNCHANGED <<now, playClock>>
    /\ IF waitingForKeyBinding # NoBinding /\ gameState = "WaitingToStart"
       THEN BindKey(key)
       ELSE IF key \in SpaceKeys /\ gameState = "WaitingToStart"
               /\ selectedGameMode # Null /\ waitingForKeyBinding = NoBinding
       THEN StartGame(draws)
       ELSE IF key \in SpaceKeys /\ gameState = "Running" THEN Pause
       ELSE IF key \in SpaceKeys /\ gameState = "Paused" THEN Resume
       ELSE IF key = "enter" /\ gameState = "GameOver" THEN RestartRound(draws)
       ELSE IF key = "enter" /\ gameState = "SessionOver" THEN ReturnToMenu
       ELSE SetKeyState(key)

\* handleKeyUp(event)
handleKeyUp(key) ==
    /\ keyStates' = keyStates \ {key}
    /\ lastFrame' = NoFrame
    /\ lastResume' = NoTime
    /\ UNCHANGED <<players, gameState, selectedGameMode, selectedPlayerCount,
                   activePowerups, nextPowerupId, lastPowerupSpawnTime, eliminationOrder,
                   pauseStartTime, waitingForKeyBinding, lastScores, playerControls,
                   now, finalRanking, playClock, roundFrames,
                   spawnClock>>

\* variant: the menu buttons react in every game state
handleMouseClickInAnyState(button) ==
    /\ lastFrame' = NoFrame
    /\ lastResume' = NoTime
    /\ UNCHANGED <<players, gameState, activePowerups, nextPowerupId,
                   lastPowerupSpawnTime, eliminationOrder, pauseStartTime, lastScores,
                   playerControls, keyStates, now, finalRanking, playClock, roundFrames,
                   spawnClock>>
    /\ IF button.kind = "mode"
       THEN /\ selectedGameMode' = button.mode
            /\ UNCHANGED <<waitingForKeyBinding, selectedPlayerCount>>
       ELSE IF button.kind = "keyBind" /\ button.playerId <= selectedPlayerCount
       THEN /\ waitingForKeyBinding' =
                  [playerId |-> button.playerId, direction |-> button.direction]
            /\ UNCHANGED <<selectedGameMode, selectedPlayerCount>>
       ELSE IF button.kind = "playerCount"
       THEN /\ selectedPlayerCount' =
                  IF button.action = "increase" /\ selectedPlayerCount < MAX_PLAYERS
                  THEN selectedPlayerCount + 1
                  ELSE IF button.action = "decrease" /\ selectedPlayerCount > 1
                  THEN selectedPlayerCount - 1
                  ELSE selectedPlayerCount
            /\ UNCHANGED <<selectedGameMode, waitingForKeyBinding>>
       ELSE UNCHANGED <<selectedGameMode, waitingForKeyBinding, selectedPlayerCount>>

\* handleMouseClick(event) for a click that lands on button (or on none)
handleMouseClick(button) ==
    /\ lastFrame' = NoFrame
    /\ lastResume' = NoTime
    /\ UNCHANGED <<players, gameState, activePowerups, nextPowerupId,
                   lastPowerupSpawnTime, eliminationOrder, pauseStartTime, lastScores,
                   playerControls, keyStates, now, finalRanking, playClock, roundFrames,
                   spawnClock>>
    /\ IF gameState # "WaitingToStart"
       THEN UNCHANGED <<selectedGameMode, waitingForKeyBinding, selectedPlayerCount>>
       ELSE IF button.kind = "mode"
       THEN /\ selectedGameMode' = button.mode
            /\ UNCHANGED <<waitingForKeyBinding, selectedPlayerCount>>
       ELSE IF button.kind = "keyBind" /\ button.playerId <= selectedPlayerCount
       THEN /\ waitingForKeyBinding' =
                  [playerId |-> button.playerId, direction |-> button.direction]
            /\ UNCHANGED <<selectedGameMode, selectedPlayerCount>>
       ELSE IF button.kind = "playerCount"
       THEN /\ selectedPlayerCount' =
                  IF button.action = "increase" /\ selectedPlayerCount < MAX_PLAYERS
                  THEN selectedPlayerCount + 1
                  ELSE IF button.action = "decrease" /\ selectedPlayerCount > 1
                  THEN selectedPlayerCount - 1
                  ELSE selectedPlayerCount
            /\ UNCHANGED <<selectedGameMode, waitingForKeyBinding>>
       ELSE UNCHANGED <<selectedGameMode, waitingForKeyBinding, selectedPlayerCount>>

\* the clock advances by d ms
Tick(d) ==
    /\ now' = now + d
    /\ playClock' = IF gameState = "Paused" THEN playClock ELSE playClock + d
    /\ lastFrame' = NoFrame
    /\ lastResume' = NoTime
    /\ UNCHANGED <<players, gameState, selectedGameMode, selectedPlayerCount,
                   activePowerups, nextPowerupId, lastPowerupSpawnTime, eliminationOrder,
                   pauseStartTime, waitingForKeyBinding, lastScores, playerControls,
                   keyStates, finalRanking, roundFrames,
                   spawnClock>>

------------------------------------------------------------------------------
(* The program as a state machine *)

LoadTime == 1            \* performance.now() when the script has run, ms

\* the module's top level: state after the script has run; the player count
\* is the one loadSettings returns
InitWith(playerCounts) ==
    /\ players = <<>>
    /\ gameState = "WaitingToStart"
    /\ selectedGameMode = Null
    /\ selectedPlayerCount \in playerCounts
    /\ activePowerups = <<>>
    /\ nextPowerupId = 0
    /\ lastPowerupSpawnTime = 0
    /\ eliminationOrder = <<>>
    /\ pauseStartTime = NoTime
    /\ waitingForKeyBinding = NoBinding
    /\ lastScores = <<>>
    /\ playerControls = defaultControls
    /\ keyStates = {}
    /\ now = LoadTime
    /\ finalRanking = <<>>
    /\ playClock = 0
    /\ roundFrames = 0
    /\ spawnClock = NoTime
    /\ lastFrame = NoFrame
    /\ lastResume = NoTime

\* handleKeyDown(key) would call initializeGame
StartsRound(key) ==
    /\ ~(waitingForKeyBinding # NoBinding /\ gameState = "WaitingToStart")
    /\ \/ key \in SpaceKeys /\ gameState = "WaitingToStart" /\ selectedGameMode # Null
       \/ key = "enter" /\ gameState = "GameOver"

HighestScore == IF DOMAIN lastScores = {} THEN 0
                ELSE CHOOSE v \in {lastScores[i] : i \in DOMAIN lastScores} :
                         \A i \in DOMAIN lastScores : lastScores[i] <= v

\* the players whose update reads Math.random() for a hole start
HoleCandidates ==
    {i \in 1..Len(players) :
        /\ players[i].isAlive
        /\ ~(players[i].isMakingHole /\ players[i].holeTimer - 1 > 0)}

\* this frame calls spawnPowerup
WillSpawn ==
    /\ gameState = "Running" /\ selectedGameMode = "Arcade"
    /\ now - (IF lastPowerupSpawnTime = 0 THEN now ELSE lastPowerupSpawnTime)
         > POWERUP_SPAWN_INTERVAL

NoDraw == [type |-> "SPEED_BOOST", fx |-> 0, fy |-> 0]
NoSpawnDraws == [i \in 1..MAX_PLAYERS |-> [fx |-> 0, fy |-> 0, angle |-> 0]]

KeyDown(cfg) ==
    \E key \in cfg.keysDown :
        \E draws \in (IF StartsRound(key) THEN cfg.spawns ELSE {NoSpawnDraws}) :
            /\ StartsRound(key) => HighestScore < cfg.maxScore
            /\ handleKeyDown(key, draws)

KeyUp(cfg) == \E key \in cfg.keysUp : key \in keyStates /\ handleKeyUp(key)

MouseClick(cfg) == \E button \in cfg.buttons : handleMouseClick(button)

Frame(cfg) ==
    /\ gameState = "Running" => roundFrames < cfg.maxFrames
    /\ \E hole \in SUBSET (HoleCandidates \cap cfg.holePlayers) :
        \E spawn \in (IF WillSpawn THEN cfg.powerupDraws ELSE {NoDraw}) :
            \E teleport \in (IF \/ WillSpawn /\ spawn.type = "RANDOM_TELEPORT"
                                \/ \E j \in 1..Len(activePowerups) :
                                       activePowerups[j].type = "RANDOM_TELEPORT"
                             THEN cfg.teleportDraws ELSE {NoDraw}) :
                gameLoop([hole |-> hole, spawn |-> spawn, teleport |-> teleport])

Clock(cfg) == \E d \in cfg.ticks : now + d <= cfg.maxTime /\ Tick(d)

NextOf(cfg) ==
    \/ KeyDown(cfg)
    \/ KeyUp(cfg)
    \/ MouseClick(cfg)
    \/ Frame(cfg)
    \/ Clock(cfg)

------------------------------------------------------------------------------
(* Scenario: one to four players chosen in the menu play two Classic rounds;
   player 2 may start heading into the wall, players 1 and 4 leave a round
   when their left key steers them into it *)

MaxTime == 20            \* the clock stops advancing here
MaxFrames == 3           \* frames run per round
MaxScore == 4            \* no round starts once a score has reached this

ModeButtons == {[kind |-> "mode", mode |-> m] : m \in {"Classic", "Arcade"}}
CountButtons == {[kind |-> "playerCount", action |-> a] : a \in {"increase", "decrease"}}
KeyBindButtons(ids) ==
    {[kind |-> "keyBind", playerId |-> i, direction |-> d] : i \in ids, d \in {"left", "right"}}

\* player i spawns on its own lane, heading up or into the wall
LaneDraws(angles) ==
    {[i \in 1..MAX_PLAYERS |-> [fx |-> 0, fy |-> (i - 1) * 33, angle |-> heading[i]]] :
        heading \in [1..MAX_PLAYERS -> angles]}

Config ==
    [keysDown |-> {" ", "enter", "arrowleft", "numpad4"},
     keysUp |-> {"arrowleft"},
     buttons |-> {[kind |-> "mode", mode |-> "Classic"]} \cup CountButtons,
     spawns |-> {d \in LaneDraws({0, 90}) : \A i \in {1, 3, 4} : d[i].angle = 90},
     holePlayers |-> {},
     powerupDraws |-> {NoDraw},
     teleportDraws |-> {NoDraw},
     ticks |-> {16},
     maxTime |-> MaxTime,
     maxFrames |-> MaxFrames,
     maxScore |-> MaxScore]

Init == InitWith({DEFAULT_PLAYER_COUNT})
Next == NextOf(Config)
Spec == Init /\ [][Next]_vars

------------------------------------------------------------------------------
(* Scenario: a Classic session of three players played to the win score;
   every round is decided in its first frame *)

SessionPlayers == 3      \* the saved player count
SessionMaxTime == 20     \* the clock stops advancing here
SessionMaxFrames == 1    \* frames run per round
SessionMaxScore == 31    \* no round starts once a score has reached this

\* player i spawns on its own lane; all but the survivor head into the wall
OneSurvivor(s) ==
    CHOOSE d \in LaneDraws({0, 90}) : \A i \in 1..MAX_PLAYERS : d[i].angle = 90 <=> i = s

SessionConfig ==
    [keysDown |-> {" ", "enter"},
     keysUp |-> {"enter"},
     buttons |-> {[kind |-> "mode", mode |-> "Classic"]},
     spawns |-> {OneSurvivor(s) : s \in 1..SessionPlayers},
     holePlayers |-> {},
     powerupDraws |-> {NoDraw},
     teleportDraws |-> {NoDraw},
     ticks |-> {16},
     maxTime |-> SessionMaxTime,
     maxFrames |-> SessionMaxFrames,
     maxScore |-> SessionMaxScore]

SessionInit == InitWith({SessionPlayers})
SessionNext == NextOf(SessionConfig)
SessionSpec == SessionInit /\ [][SessionNext]_vars

------------------------------------------------------------------------------
(* Scenario: one Arcade round of two players; player 1 starts next to the
   place where the power-ups appear and may start holes, player 2 moves away *)

ArcadeMaxTime == 7001    \* the clock stops advancing here
ArcadeMaxFrames == 4     \* frames run per round
ArcadeMaxScore == 1      \* no round starts once a score has reached this

ArcadeSpawn ==
    [i \in 1..MAX_PLAYERS |->
        IF i = 1 THEN [fx |-> 0, fy |-> 50, angle |-> 30]
        ELSE [fx |-> 0, fy |-> 0, angle |-> 90]]

ArcadeConfig ==
    [keysDown |-> {" ", "enter", "arrowleft"},
     keysUp |-> {"arrowleft"},
     buttons |-> {[kind |-> "mode", mode |-> "Arcade"]},
     spawns |-> {ArcadeSpawn},
     holePlayers |-> {1},
     powerupDraws |-> {[type |-> k, fx |-> 50, fy |-> 50] :
                          k \in {"INVINCIBLE", "GHOST_MODE", "RANDOM_TELEPORT",
                                 "CLEAR_OWN_TRAIL"}},
     teleportDraws |-> {[type |-> "RANDOM_TELEPORT", fx |-> 0, fy |-> 50]},
     ticks |-> {3500},
     maxTime |-> ArcadeMaxTime,
     maxFrames |-> ArcadeMaxFrames,
     maxScore |-> ArcadeMaxScore]

ArcadeInit == InitWith({DEFAULT_PLAYER_COUNT})
ArcadeNext == NextOf(ArcadeConfig)
ArcadeSpec == ArcadeInit /\ [][ArcadeNext]_vars

------------------------------------------------------------------------------
(* Scenario: one Arcade round of two players with pauses; the clock runs in
   steps of five seconds, long enough for a power-up to reach its lifetime;
   player 1 starts either next to the place where the power-ups appear or
   away from it *)

PauseMaxTime == 20001    \* the clock stops advancing here
PauseMaxFrames == 4      \* frames run per round
PauseMaxScore == 1       \* no round starts once a score has reached this

PauseSpawn(fy) ==
    [i \in 1..MAX_PLAYERS |->
        IF i = 1 THEN [fx |-> 0, fy |-> fy, angle |-> 30]
        ELSE [fx |-> 0, fy |-> 0, angle |-> 90]]

PauseConfig ==
    [keysDown |-> {" ", "enter"},
     keysUp |-> {"enter"},
     buttons |-> {[kind |-> "mode", mode |-> "Arcade"]},
     spawns |-> {PauseSpawn(fy) : fy \in {50, 100}},
     holePlayers |-> {},
     powerupDraws |-> {[type |-> k, fx |-> 50, fy |-> 50] : k \in {"THIN_TRAIL", "INVINCIBLE"}},
     teleportDraws |-> {NoDraw},
     ticks |-> {5000},
     maxTime |-> PauseMaxTime,
     maxFrames |-> PauseMaxFrames,
     maxScore |-> PauseMaxScore]

PauseInit == InitWith({DEFAULT_PLAYER_COUNT})
PauseNext == NextOf(PauseConfig)
PauseSpec == PauseInit /\ [][PauseNext]_vars

------------------------------------------------------------------------------
(* Scenario: one Arcade round of two players that both start within reach of
   the place where the power-ups appear *)

CollectMaxTime == 7001   \* the clock stops advancing here
CollectMaxFrames == 3    \* frames run per round
CollectMaxScore == 1     \* no round starts once a score has reached this

\* player 1 starts on the spot and heads down, player 2 starts above it and
\* heads up, or far above it
CollectSpawn(fy2) ==
    [i \in 1..MAX_PLAYERS |->
        IF i = 1 THEN [fx |-> 0, fy |-> 50, angle |-> 30]
        ELSE [fx |-> 0, fy |-> fy2, angle |-> 90]]

CollectConfig ==
    [keysDown |-> {" ", "enter"},
     keysUp |-> {"enter"},
     buttons |-> {[kind |-> "mode", mode |-> "Arcade"]},
     spawns |-> {CollectSpawn(fy2) : fy2 \in {0, 36}},
     holePlayers |-> {},
     powerupDraws |-> {[type |-> k, fx |-> 50, fy |-> 50] :
                          k \in {"SPEED_BOOST", "SLOW_OTHERS", "INVINCIBLE"}},
     teleportDraws |-> {NoDraw},
     ticks |-> {3500},
     maxTime |-> CollectMaxTime,
     maxFrames |-> CollectMaxFrames,
     maxScore |-> CollectMaxScore]

CollectInit == InitWith({DEFAULT_PLAYER_COUNT})
CollectNext == NextOf(CollectConfig)
CollectSpec == CollectInit /\ [][CollectNext]_vars

------------------------------------------------------------------------------
(* Scenario: the same round with either mode selectable in the menu *)

ModeConfig == [CollectConfig EXCEPT !.buttons = ModeButtons]

ModeInit == InitWith({DEFAULT_PLAYER_COUNT})
ModeNext == NextOf(ModeConfig)
ModeSpec == ModeInit /\ [][ModeNext]_vars

------------------------------------------------------------------------------
(* Scenario: one long Arcade round of two players that never turn; player 1
   heads down from the lower end of the spawn range, player 2 heads up from
   its middle; speed power-ups appear next to either of them *)

StraightMaxTime == 7001  \* the clock stops advancing here
StraightMaxFrames == 23  \* frames run per round
StraightMaxScore == 1    \* no round starts once a score has reached this

StraightSpawn ==
    [i \in 1..MAX_PLAYERS |->
        IF i = 1 THEN [fx |-> 0, fy |-> 100, angle |-> 30]
        ELSE [fx |-> 0, fy |-> 42, angle |-> 90]]

StraightConfig ==
    [keysDown |-> {" ", "enter"},
     keysUp |-> {"enter"},
     buttons |-> {[kind |-> "mode", mode |-> "Arcade"]},
     spawns |-> {StraightSpawn},
     holePlayers |-> {},
     powerupDraws |-> {[type |-> "SPEED_BOOST", fx |-> 50, fy |-> 64],
                       [type |-> "SPEED_BOOST", fx |-> 50, fy |-> 50],
                       [type |-> "SLOW_OTHERS", fx |-> 50, fy |-> 50]},
     teleportDraws |-> {NoDraw},
     ticks |-> {3500},
     maxTime |-> StraightMaxTime,
     maxFrames |-> StraightMaxFrames,
     maxScore |-> StraightMaxScore]

StraightInit == InitWith({DEFAULT_PLAYER_COUNT})
StraightNext == NextOf(StraightConfig)
StraightSpec == StraightInit /\ [][StraightNext]_vars

------------------------------------------------------------------------------
(* Scenario: an Arcade round of three players in which player 1 runs into the
   wall in the first frame and lies next to the place where the power-ups
   appear, while players 2 and 3 go on *)

InertMaxTime == 7001   \* the clock stops advancing here
InertMaxFrames == 4    \* frames run per round
InertMaxScore == 1     \* no round starts once a score has reached this

InertSpawn(fy2) ==
    [i \in 1..MAX_PLAYERS |->
        IF i = 1 THEN [fx |-> 0, fy |-> 50, angle |-> 0]
        ELSE IF i = 2 THEN [fx |-> 0, fy |-> fy2, angle |-> 90]
        ELSE [fx |-> 0, fy |-> 100, angle |-> 30]]

InertConfig ==
    [keysDown |-> {" ", "enter", "arrowleft"},
     keysUp |-> {"arrowleft"},
     buttons |-> {[kind |-> "mode", mode |-> "Arcade"]},
     spawns |-> {InertSpawn(fy2) : fy2 \in {0, 36}},
     holePlayers |-> {},
     powerupDraws |-> {[type |-> k, fx |-> 50, fy |-> 50] :
                          k \in {"SPEED_BOOST", "SLOW_OTHERS", "RANDOM_TELEPORT",
                                 "CLEAR_OWN_TRAIL"}},
     teleportDraws |-> {[type |-> "RANDOM_TELEPORT", fx |-> 0, fy |-> 50]},
     ticks |-> {3500},
     maxTime |-> InertMaxTime,
     maxFrames |-> InertMaxFrames,
     maxScore |-> InertMaxScore]

InertInit == InitWith({SessionPlayers})
InertNext == NextOf(InertConfig)
InertSpec == InertInit /\ [][InertNext]_vars

------------------------------------------------------------------------------
(* Scenario: an Arcade round of three players in which player 2 stays within
   reach of the place where timed power-ups appear, player 3 runs far from it
   and player 1 dies in the first frame or when its turn key is pressed *)

EffectMaxTime == 7001   \* the clock stops advancing here
EffectMaxFrames == 3    \* frames run per round
EffectMaxScore == 1     \* no round starts once a score has reached this

EffectSpawn(angle1) ==
    [i \in 1..MAX_PLAYERS |->
        IF i = 1 THEN [fx |-> 0, fy |-> 0, angle |-> angle1]
        ELSE IF i = 2 THEN [fx |-> 0, fy |-> 50, angle |-> 30]
        ELSE [fx |-> 0, fy |-> 100, angle |-> 30]]

EffectConfig ==
    [keysDown |-> {" ", "enter", "arrowleft"},
     keysUp |-> {"arrowleft"},
     buttons |-> {[kind |-> "mode", mode |-> "Arcade"]},
     spawns |-> {EffectSpawn(angle1) : angle1 \in {0, 90}},
     holePlayers |-> {},
     powerupDraws |-> {[type |-> k, fx |-> 50, fy |-> 50] :
                          k \in {"SPEED_BOOST", "SLOW_OTHERS", "GHOST_MODE"}},
     teleportDraws |-> {NoDraw},
     ticks |-> {3500},
     maxTime |-> EffectMaxTime,
     maxFrames |-> EffectMaxFrames,
     maxScore |-> EffectMaxScore]

EffectInit == InitWith({SessionPlayers})
EffectNext == NextOf(EffectConfig)
EffectSpec == EffectInit /\ [][EffectNext]_vars

------------------------------------------------------------------------------
(* Scenario: an Arcade round of two players that lasts long enough for the
   effects player 1 collects to run out; the power-ups appear either on
   player 1's way or far from both players *)

ExpiryMaxTime == 10501  \* the clock stops advancing here
ExpiryMaxFrames == 4    \* frames run per round
ExpiryMaxScore == 1     \* no round starts once a score has reached this

ExpiryConfig ==
    [keysDown |-> {" ", "arrowleft"},
     keysUp |-> {"arrowleft"},
     buttons |-> {[kind |-> "mode", mode |-> "Arcade"]},
     spawns |-> {ArcadeSpawn},
     holePlayers |-> {},
     powerupDraws |-> {[type |-> k, fx |-> 50, fy |-> fy] :
                          k \in {"SPEED_BOOST", "INVINCIBLE", "REVERSE_CONTROLS"},
                          fy \in {0, 50}},
     teleportDraws |-> {NoDraw},
     ticks |-> {3500},
     maxTime |-> ExpiryMaxTime,
     maxFrames |-> ExpiryMaxFrames,
     maxScore |-> ExpiryMaxScore]

ExpiryInit == InitWith({DEFAULT_PLAYER_COUNT})
ExpiryNext == NextOf(ExpiryConfig)
ExpirySpec == ExpiryInit /\ [][ExpiryNext]_vars

------------------------------------------------------------------------------
(* Scenario: the menu with the key-binding buttons of both players, and short
   Classic rounds during which the same keys and buttons are used *)

BindMaxTime == 17    \* the clock stops advancing here
BindMaxFrames == 2   \* frames run per round
BindMaxScore == 1    \* no round starts once a score has reached this

BindConfig ==
    [keysDown |-> {" ", "enter", "escape", "x", "shift"},
     keysUp |-> {"x"},
     buttons |-> {[kind |-> "mode", mode |-> "Classic"]}
                   \cup KeyBindButtons({1, 2}),
     spawns |-> Config.spawns,
     holePlayers |-> {},
     powerupDraws |-> {NoDraw},
     teleportDraws |-> {NoDraw},
     ticks |-> {16},
     maxTime |-> BindMaxTime,
     maxFrames |-> BindMaxFrames,
     maxScore |-> BindMaxScore]

BindInit == InitWith({DEFAULT_PLAYER_COUNT})
BindNext == NextOf(BindConfig)
BindSpec == BindInit /\ [][BindNext]_vars

------------------------------------------------------------------------------
(* Scenario: a Classic round in which player 1 starts at heading 0, just
   below a full turn or at half a turn, presses and releases both of its turn
   keys, and may be making a hole, which lets it survive its turns *)

TurnMaxTime == 17    \* the clock stops advancing here
TurnMaxFrames == 3   \* frames run per round
TurnMaxScore == 1    \* no round starts once a score has reached this

TurnSpawn(angle1) ==
    [i \in 1..MAX_PLAYERS |->
        IF i = 1 THEN [fx |-> 0, fy |-> 50, angle |-> angle1]
        ELSE [fx |-> 0, fy |-> 0, angle |-> 90]]

TurnConfig ==
    [keysDown |-> {" ", "arrowleft", "arrowright"},
     keysUp |-> {"arrowleft", "arrowright"},
     buttons |-> {[kind |-> "mode", mode |-> "Classic"]},
     spawns |-> {TurnSpawn(angle1) : angle1 \in {0, 60, FULL_TURN - 1}},
     holePlayers |-> {1},
     powerupDraws |-> {NoDraw},
     teleportDraws |-> {NoDraw},
     ticks |-> {16},
     maxTime |-> TurnMaxTime,
     maxFrames |-> TurnMaxFrames,
     maxScore |-> TurnMaxScore]

TurnInit == InitWith({DEFAULT_PLAYER_COUNT})
TurnNext == NextOf(TurnConfig)
TurnSpec == TurnInit /\ [][TurnNext]_vars

------------------------------------------------------------------------------
(* Scenario: a Classic round of two players long enough to reach the upper
   and the lower edge of the field: player 1 heads down from the lower end or
   the middle of the spawn range and may turn into the right edge, player 2
   heads up from the upper end or sideways into the left edge *)

WallMaxTime == 17     \* the clock stops advancing here
WallMaxFrames == 56   \* frames run per round
WallMaxScore == 1     \* no round starts once a score has reached this

WallSpawn(fy1, angle2) ==
    [i \in 1..MAX_PLAYERS |->
        IF i = 1 THEN [fx |-> 0, fy |-> fy1, angle |-> 30]
        ELSE [fx |-> 0, fy |-> 0, angle |-> angle2]]

WallConfig ==
    [keysDown |-> {" ", "arrowleft"},
     keysUp |-> {"arrowleft"},
     buttons |-> {[kind |-> "mode", mode |-> "Classic"]},
     spawns |-> {WallSpawn(fy1, angle2) : fy1 \in {50, 100}, angle2 \in {60, 90}},
     holePlayers |-> {},
     powerupDraws |-> {NoDraw},
     teleportDraws |-> {NoDraw},
     ticks |-> {16},
     maxTime |-> WallMaxTime,
     maxFrames |-> WallMaxFrames,
     maxScore |-> WallMaxScore]

WallInit == InitWith({DEFAULT_PLAYER_COUNT})
WallNext == NextOf(WallConfig)
WallSpec == WallInit /\ [][WallNext]_vars

------------------------------------------------------------------------------
(* Scenario: Classic rounds of two or three players on one line: player 1
   heads down from the middle and may make holes, player 2 follows it from
   220 px above, and player 3, 120 px below player 1, runs into the wall in
   the first frame and leaves its trail in player 1's way *)

TrailMaxTime == 17     \* the clock stops advancing here
TrailMaxFrames == 7    \* frames run per round
TrailMaxScore == 1     \* no round starts once a score has reached this

TrailSpawn ==
    [i \in 1..MAX_PLAYERS |->
        IF i = 1 THEN [fx |-> 0, fy |-> 50, angle |-> 30]
        ELSE IF i = 2 THEN [fx |-> 0, fy |-> 19, angle |-> 30]
        ELSE [fx |-> 0, fy |-> 67, angle |-> 0]]

TrailConfig ==
    [keysDown |-> {" ", "enter"},
     keysUp |-> {"enter"},
     buttons |-> {[kind |-> "mode", mode |-> "Classic"]},
     spawns |-> {TrailSpawn},
     holePlayers |-> {1},
     powerupDraws |-> {NoDraw},
     teleportDraws |-> {NoDraw},
     ticks |-> {16},
     maxTime |-> TrailMaxTime,
     maxFrames |-> TrailMaxFrames,
     maxScore |-> TrailMaxScore]

TrailInit == InitWith({DEFAULT_PLAYER_COUNT, SessionPlayers})
TrailNext == NextOf(TrailConfig)
TrailSpec == TrailInit /\ [][TrailNext]_vars

------------------------------------------------------------------------------
(* Scenario: a Classic round of two players that move apart along one line
   for long enough that a hole of player 1 runs out and the next one starts,
   in the same update or a later one *)

HoleMaxTime == 17      \* the clock stops advancing here
HoleMaxFrames == 14    \* frames run per round
HoleMaxScore == 1      \* no round starts once a score has reached this

HoleSpawn ==
    [i \in 1..MAX_PLAYERS |->
        IF i = 1 THEN [fx |-> 0, fy |-> 50, angle |-> 30]
        ELSE [fx |-> 0, fy |-> 36, angle |-> 90]]

HoleConfig ==
    [keysDown |-> {" ", "enter"},
     keysUp |-> {"enter"},
     buttons |-> {[kind |-> "mode", mode |-> "Classic"]},
     spawns |-> {HoleSpawn},
     holePlayers |-> {1},
     powerupDraws |-> {NoDraw},
     teleportDraws |-> {NoDraw},
     ticks |-> {16},
     maxTime |-> HoleMaxTime,
     maxFrames |-> HoleMaxFrames,
     maxScore |-> HoleMaxScore]

HoleInit == InitWith({DEFAULT_PLAYER_COUNT})
HoleNext == NextOf(HoleConfig)
HoleSpec == HoleInit /\ [][HoleNext]_vars

------------------------------------------------------------------------------
(* Scenario: two Arcade rounds of two players; power-ups appear where player
   1 collects them at once or where nobody does, player 1 may start holes,
   and player 2 ends a round by heading or turning into the wall *)

RestartMaxTime == 7001   \* the clock stops advancing here
RestartMaxFrames == 3    \* frames run per round
RestartMaxScore == 4     \* no round starts once a score has reached this

RestartSpawn(angle2) ==
    [i \in 1..MAX_PLAYERS |->
        IF i = 1 THEN [fx |-> 0, fy |-> 50, angle |-> 30]
        ELSE [fx |-> 0, fy |-> 0, angle |-> angle2]]

RestartConfig ==
    [keysDown |-> {" ", "enter", "a"},
     keysUp |-> {"a"},
     buttons |-> {[kind |-> "mode", mode |-> "Arcade"]},
     spawns |-> {RestartSpawn(angle2) : angle2 \in {0, 90}},
     holePlayers |-> {1},
     powerupDraws |-> {[type |-> "INVINCIBLE", fx |-> 50, fy |-> fy] : fy \in {0, 50}},
     teleportDraws |-> {NoDraw},
     ticks |-> {3500},
     maxTime |-> RestartMaxTime,
     maxFrames |-> RestartMaxFrames,
     maxScore |-> RestartMaxScore]

RestartInit == InitWith({DEFAULT_PLAYER_COUNT})
RestartNext == NextOf(RestartConfig)
RestartSpec == RestartInit /\ [][RestartNext]_vars

------------------------------------------------------------------------------
(* Properties *)

\* the step is a frame that ends a round
RoundEnds == gameState = "Running" /\ gameState' \in {"GameOver", "SessionOver"}

\* some score is at least 30 and leads every other score by at least 2
LeadsBy2From30(scoreMap) ==
    \E i \in DOMAIN scoreMap :
        /\ scoreMap[i] >= 30
        /\ \A j \in DOMAIN scoreMap \ {i} : scoreMap[i] - scoreMap[j] >= 2

\* C1: a round end moves to SessionOver exactly when the highest score is at
\* least 30 and either there are fewer than two scores or it leads the second
\* highest by at least 2; every other round end moves to GameOver
C1_SessionOverIffWon ==
    [][RoundEnds =>
         /\ lastFrame'.roundEnd
         /\ gameState' = "SessionOver" <=> LeadsBy2From30(lastScores')
         /\ gameState' = "GameOver" <=> ~LeadsBy2From30(lastScores')]_vars

\* a round has just ended the session with the leader exactly 2 ahead
C1_Witness ==
    /\ lastFrame.roundEnd
    /\ gameState = "SessionOver"
    /\ \E i, j \in DOMAIN lastScores :
           /\ lastScores[i] >= 30
           /\ lastScores[i] - lastScores[j] = 2
           /\ \A k \in DOMAIN lastScores : lastScores[k] <= lastScores[i]

\* the points player i gains in this step
Gain(i) == players'[i].score - players[i].score

RECURSIVE TotalGain(_)
TotalGain(n) == IF n = 0 THEN 0 ELSE Gain(n) + TotalGain(n - 1)

\* C3: at a round end with N players, 2 <= N <= 4, the final ranking holds
\* every player id exactly once, each of the first N entries of [3,2,1,0] is
\* gained by exactly one player, and the gains sum to 5 for N = 2 and to 6 for
\* N = 3 or 4
C3_RankingIsPermutationPointsFirstN ==
    [][RoundEnds =>
         LET N == Len(players)
         IN  /\ N \in 2..4
             /\ Len(players') = N
             /\ Len(finalRanking') = N
             /\ \A id \in 1..N : Cardinality({k \in 1..N : finalRanking'[k] = id}) = 1
             /\ \A k \in 1..N :
                    Cardinality({i \in 1..N : Gain(i) = <<3, 2, 1, 0>>[k]}) = 1
             /\ TotalGain(N) = IF N = 2 THEN 5 ELSE 6]_vars

\* a round of four players has just ended
C3_Witness ==
    /\ lastFrame.roundEnd
    /\ Len(players) = 4
    /\ {players[i].score : i \in 1..4} = {0, 1, 2, 3}

\* C4: at a round end the final ranking is the ids of the living players,
\* then the elimination order from its last entry back to its first
C4_LivingThenReversedElimination ==
    [][RoundEnds =>
         LET living == {i \in 1..Len(players') : players'[i].isAlive}
             L == Cardinality(living)
             E == Len(eliminationOrder')
         IN  /\ Len(finalRanking') = L + E
             /\ {finalRanking'[k] : k \in 1..L} = living
             /\ \A k, m \in 1..L : k < m => finalRanking'[k] < finalRanking'[m]
             /\ \A k \in 1..E : finalRanking'[L + k] = eliminationOrder'[E + 1 - k]]_vars

\* players 2, 4 and 1 were eliminated in this order, player 3 survived
C4_Witness ==
    /\ lastFrame.roundEnd
    /\ eliminationOrder = <<2, 4, 1>>
    /\ players[3].isAlive
    /\ finalRanking = <<3, 1, 4, 2>>

\* the position of id in ranking, counted from 0
PositionIn(ranking, id) == (CHOOSE k \in 1..Len(ranking) : ranking[k] = id) - 1

\* C5: at a round end every player's score grows by the table value of its
\* position in the final ranking (3, 2, 1, then 0 from position 3 on); no
\* other step adds to a score
C5_GainIsTableValueOfPosition ==
    [][IF RoundEnds
       THEN \A i \in 1..Len(players) :
                LET position == PositionIn(finalRanking', players[i].id)
                IN  Gain(i) = CASE position = 0 -> 3
                                [] position = 1 -> 2
                                [] position = 2 -> 1
                                [] OTHER -> 0
       ELSE \A i \in DOMAIN players \cap DOMAIN players' :
                players'[i].score = players[i].score \/ players'[i].score = 0]_vars

\* a second round has ended; its last-ranked player of four gained nothing
C5_Witness ==
    /\ lastFrame.roundEnd
    /\ Len(finalRanking) = 4
    /\ \E i \in 1..4 : players[i].score >= 4
    /\ \E i \in 1..4 : PositionIn(finalRanking, i) = 3 /\ players[i].score \in {0, 1, 2, 3}

\* the step is a frame that updates the players
FrameRuns == gameState = "Running" /\ lastFrame'.ran

\* C6: a player whose isMakingHole is true when its collision check runs,
\* that is after its update in the frame, is not eliminated in that frame
C6_HoleMakerNeverEliminated ==
    [][FrameRuns =>
         \A i \in 1..Len(players) :
             players[i].isAlive /\ players'[i].isMakingHole => players'[i].isAlive]_vars

\* a frame has left a hole-making player alive outside the playable rectangle,
\* with neither effect of immunity
C6_Witness ==
    /\ lastFrame.ran
    /\ \E i \in 1..Len(players) :
           /\ players[i].isAlive /\ players[i].isMakingHole
           /\ players[i].activeEffects["INVINCIBLE"] = 0
           /\ players[i].activeEffects["GHOST_MODE"] = 0
           /\ HitsBoundary(players[i], playableWidth, ClientHeight)

\* C7: a living player that holds INVINCIBLE or GHOST_MODE with an expiry
\* later than the time of its update is not eliminated in that frame
C7_UnexpiredImmunityNeverEliminated ==
    [][FrameRuns =>
         \A i \in 1..Len(players) :
             \A kind \in {"INVINCIBLE", "GHOST_MODE"} :
                 players[i].isAlive /\ now < players[i].activeEffects[kind]
                     => players'[i].isAlive]_vars

\* a frame has left a player alive outside the playable rectangle that makes
\* no hole and holds GHOST_MODE from an earlier frame
C7_Witness ==
    /\ lastFrame.ran
    /\ lastFrame.applied = <<>>
    /\ \E i \in 1..Len(players) :
           /\ players[i].isAlive /\ ~players[i].isMakingHole
           /\ players[i].activeEffects["GHOST_MODE"] > now
           /\ players[i].activeEffects["INVINCIBLE"] = 0
           /\ HitsBoundary(players[i], playableWidth, ClientHeight)

\* C8: a frame that continues a player's hole appends no gap marker to its
\* path; the frame that starts the hole appends one, so this says that one
\* hole episode appends at most one
C8_OneGapMarkerPerHoleEpisode ==
    [][FrameRuns =>
         \A i \in 1..Len(players) :
             players[i].isAlive /\ players[i].isMakingHole /\ players'[i].isMakingHole
                 => ~(/\ Len(players'[i].path) = Len(players[i].path) + 1
                      /\ Last(players'[i].path) = Gap)]_vars

\* C9: the pause records its time; while the game is Paused no effect timer
\* changes; and the resume leaves every effect that had remaining time
\* r = expiry - tPause > 0 at the pause with remaining time r at the resume
C9_EffectTimeSurvivesPause ==
    [][/\ gameState = "Running" /\ gameState' = "Paused"
          => pauseStartTime' = now /\ players' = players
       /\ gameState = "Paused" /\ gameState' = "Paused"
          => pauseStartTime' = pauseStartTime /\ players' = players
       /\ gameState = "Paused" /\ gameState' # "Paused"
          => /\ gameState' = "Running"
             /\ Len(players') = Len(players)
             /\ \A i \in 1..Len(players) :
                    \A kind \in TimedKinds :
                        LET r == players[i].activeEffects[kind] - pauseStartTime
                        IN  players[i].activeEffects[kind] # 0 /\ r > 0
                              => players'[i].activeEffects[kind] - now' = r]_vars

\* the game has just resumed after 5000 ms or more, and a living player has
\* an effect with exactly 5000 ms left
C9_Witness ==
    /\ gameState = "Running"
    /\ lastResume >= 5000
    /\ \E i \in 1..Len(players) :
           \E kind \in TimedKinds :
               players[i].isAlive /\ players[i].activeEffects[kind] - now = 5000

\* the time a power-up has existed while the game was not Paused
PlayedAge(powerup) == playClock - powerup.born

\* C10: after every Running Arcade frame, each power-up the frame despawned
\* had existed for 10000 ms or more of non-paused time, and no power-up that
\* had existed that long is still active or was collected in the frame
C10_LifetimeInNonPausedTime ==
    lastFrame.ran /\ selectedGameMode = "Arcade" =>
        /\ \A powerup \in lastFrame.despawned : PlayedAge(powerup) >= 10000
        /\ \A j \in 1..Len(activePowerups) : PlayedAge(activePowerups[j]) < 10000
        /\ \A k \in 1..Len(lastFrame.applied) : lastFrame.applied[k].age < 10000

\* a frame has despawned a power-up of a round that was paused for a while
C10_Witness ==
    /\ lastFrame.ran /\ selectedGameMode = "Arcade"
    /\ \E powerup \in lastFrame.despawned :
           /\ PlayedAge(powerup) = 10000
           /\ now - powerup.createdAt = 10000
           /\ now - LoadTime - playClock >= 5000

\* the ids of the power-ups in this list
IdsOf(powerups) == {powerups[j].id : j \in 1..Len(powerups)}

\* the head of the player overlaps the power-up collected in the frame
OverlapsCollected(player, collected) ==
    (player.x - collected.x) * (player.x - collected.x)
      + (player.y - collected.y) * (player.y - collected.y)
        < (PLAYER_RADIUS + collected.radius) * (PLAYER_RADIUS + collected.radius)

\* C11: in one frame no power-up is applied more than once, however many
\* living heads overlap it; the one application goes to the first overlapping
\* living player in processing order; the power-up has left activePowerups
\* after the frame; and because the ids of a round are handed out once, no id
\* is applied a second time in a later frame
C11_PowerupAppliedOnceToFirstPlayer ==
    [][FrameRuns =>
         LET applied == lastFrame'.applied
         IN  /\ \A k, m \in 1..Len(applied) : applied[k].id = applied[m].id => k = m
             /\ \A k \in 1..Len(applied) :
                    /\ applied[k].id \notin IdsOf(activePowerups')
                    /\ applied[k].id \in IdsOf(activePowerups) \cup {nextPowerupId}
                    /\ applied[k].id < nextPowerupId'
                    /\ players'[applied[k].by].isAlive
                    /\ \A q \in 1..Len(players') :
                           players'[q].isAlive /\ OverlapsCollected(players'[q], applied[k])
                               => applied[k].by <= q
             /\ \A j, k \in 1..Len(activePowerups') :
                    activePowerups'[j].id = activePowerups'[k].id => j = k
             /\ \A j \in 1..Len(activePowerups') : activePowerups'[j].id < nextPowerupId']_vars

\* a frame has applied one power-up once, to player 1, while the heads of
\* both living players overlap it
C11_Witness ==
    /\ lastFrame.ran
    /\ Len(lastFrame.applied) = 1
    /\ lastFrame.applied[1].by = 1
    /\ activePowerups = <<>>
    /\ \A q \in 1..2 : players[q].isAlive /\ OverlapsCollected(players[q], lastFrame.applied[1])

\* every recorded point of the player's path lies on the line through its
\* head along its heading
PathIsStraight(player) ==
    \A k \in 1..Len(player.path) :
        ~player.path[k].gap =>
            (player.path[k].x - player.x) * Sin1000(player.angle)
              = (player.path[k].y - player.y) * Cos1000(player.angle)

\* a point of the player's own path older than the 20 most recent entries
\* lies within 2 * radius of its head
OwnOlderPointWithinReach(player) ==
    \E k \in 1..Len(player.path) - 20 :
        /\ ~player.path[k].gap
        /\ (player.x - player.path[k].x) * (player.x - player.path[k].x)
             + (player.y - player.path[k].y) * (player.y - player.path[k].y) < (2 * 50) * (2 * 50)

\* C12: a living player without immunity whose whole path is a straight line
\* has, after its update, no own point older than the 20 most recent entries
\* within 2 * radius of its head, and the collision check reports no hit
\* against its own trail
C12_NoSelfCollisionOnStraightLine ==
    [][FrameRuns =>
         \A i \in 1..Len(players) :
             /\ players[i].isAlive
             /\ ~IsImmune(players'[i])
             /\ players'[i].angle = players[i].angle
             /\ PathIsStraight(players'[i])
             => /\ ~OwnOlderPointWithinReach(players'[i])
                /\ ~HitsTrail(players'[i], <<players'[i]>>)]_vars

\* a frame has moved a slowed living player straight on with more than one
\* own point older than the 20 most recent entries
C12_Witness ==
    /\ lastFrame.ran
    /\ \E i \in 1..Len(players) :
           /\ players[i].isAlive /\ ~IsImmune(players[i])
           /\ players[i].activeEffects["SLOW_OTHERS"] > now
           /\ PathIsStraight(players[i])
           /\ Len(players[i].path) >= 22

\* the transitions of gameState the state machine allows
AllowedTransitions ==
    {<<"WaitingToStart", "Running">>, <<"Running", "Paused">>, <<"Paused", "Running">>,
     <<"Running", "GameOver">>, <<"Running", "SessionOver">>, <<"GameOver", "Running">>,
     <<"SessionOver", "WaitingToStart">>}

\* the step is a press of key
Pressed(key) == \E d \in SessionConfig.spawns : handleKeyDown(key, d)

PressedInMenu(key) == \E d \in Config.spawns : handleKeyDown(key, d)

\* the menu is ready for a start: a mode is selected and no binding is pending
ReadyToStart ==
    /\ gameState = "WaitingToStart"
    /\ selectedGameMode # Null
    /\ waitingForKeyBinding = NoBinding

C15_ScoresPersistUntilSessionBoundary ==
    [][/\ gameState = "GameOver" /\ gameState' = "Running"
            => /\ Len(players') = Len(players)
               /\ \A i \in 1..Len(players) :
                      /\ players'[i].score = players[i].score
                      /\ players'[i].score = lastScores[i]
               /\ lastScores' = lastScores
       /\ gameState = "SessionOver" /\ gameState' = "WaitingToStart"
            => lastScores' = <<>>
       /\ gameState = "WaitingToStart" /\ gameState' = "Running"
            => /\ lastScores' = <<>>
               /\ \A i \in 1..Len(players') : players'[i].score = 0
       /\ ~lastFrame'.roundEnd /\ "WaitingToStart" \notin {gameState, gameState'}
            => /\ Len(players') = Len(players)
               /\ \A i \in 1..Len(players) : players'[i].score = players[i].score
               /\ lastScores' = lastScores]_vars

\* the first round of a second session has just started, every score at 0
C15_Witness ==
    /\ gameState = "Running"
    /\ roundFrames = 0
    /\ finalRanking # <<>>
    /\ lastScores = <<>>
    /\ Len(players) = selectedPlayerCount
    /\ \A i \in 1..Len(players) : players[i].score = 0

\* C16: a frame callback that arrives while the game is Paused leaves the
\* players (position, heading, path, hole state, alive flag, effects, score),
\* activePowerups, nextPowerupId, eliminationOrder, lastScores, the spawn
\* reference timestamp, the pause timestamp and gameState unchanged; and so
\* does every other step that leaves the game Paused
C16_PausedFrameChangesNothing ==
    [][/\ gameState = "Paused" /\ Frame(PauseConfig)
            => /\ lastFrame'.skipped
               /\ UNCHANGED <<players, activePowerups, nextPowerupId, eliminationOrder,
                              lastScores, lastPowerupSpawnTime, pauseStartTime,
                              gameState>>
       /\ gameState = "Paused" /\ gameState' = "Paused"
            => UNCHANGED <<players, activePowerups, nextPowerupId, eliminationOrder,
                           lastScores, lastPowerupSpawnTime, pauseStartTime>>]_vars

\* a frame callback has arrived during a pause that has lasted some time, with
\* an effect running on a living player
C16_Witness ==
    /\ gameState = "Paused"
    /\ lastFrame.skipped
    /\ now > pauseStartTime
    /\ \E i \in 1..Len(players) :
           players[i].isAlive /\ \E k \in TimedKinds : players[i].activeEffects[k] > 0

\* the step stays within the current round: it neither initialises a round
\* nor clears the players on the return to the menu
WithinRound == gameState \in {"Running", "Paused"} \/ gameState' = gameState

\* the number of occurrences of id in the sequence order
Occurrences(order, id) == Cardinality({k \in 1..Len(order) : order[k] = id})

\* C17: within a round a dead player stays dead and keeps its x, y, angle,
\* path, isMakingHole and holeTimer; it is not appended to eliminationOrder
\* again, and no power-up is applied to it
C17_DeadPlayerIsInert ==
    [][WithinRound =>
         \A i \in 1..Len(players) :
             ~players[i].isAlive
             => /\ Len(players') = Len(players)
                /\ ~players'[i].isAlive
                /\ players'[i].x = players[i].x
                /\ players'[i].y = players[i].y
                /\ players'[i].angle = players[i].angle
                /\ players'[i].path = players[i].path
                /\ players'[i].isMakingHole = players[i].isMakingHole
                /\ players'[i].holeTimer = players[i].holeTimer
                /\ Occurrences(eliminationOrder', i) = Occurrences(eliminationOrder, i)
                /\ \A k \in 1..Len(lastFrame'.applied) : lastFrame'.applied[k].by # i]_vars

\* a Running frame has applied a power-up to a living player although the
\* head of dead player 1, whose turn key is held, overlaps that power-up
C17_Witness ==
    /\ lastFrame.ran
    /\ Len(players) = 3
    /\ ~players[1].isAlive
    /\ playerControls[1].left \in keyStates
    /\ \E k \in 1..Len(lastFrame.applied) :
           /\ lastFrame.applied[k].by # 1
           /\ OverlapsCollected(players[1], lastFrame.applied[k])

\* a round is in progress or has ended and its players are still there
InRound == gameState \in {"Running", "Paused", "GameOver", "SessionOver"}

\* the step initialises a round
RoundStarts == gameState \in {"WaitingToStart", "GameOver"} /\ gameState' = "Running"

\* order is a prefix of longer
IsPrefix(order, longer) ==
    /\ Len(order) <= Len(longer)
    /\ \A k \in 1..Len(order) : longer[k] = order[k]

Living(playerList) ==
    Cardinality({i \in 1..Len(playerList) : playerList[i].isAlive})

\* C19: in a round of two or more players, a Running frame after which at most
\* one player is alive ends the round in that same step: the ranking is set,
\* points are awarded, lastScores holds every player's new score, and
\* gameState is GameOver or SessionOver; a Running frame after which two or
\* more players are alive awards nothing and leaves gameState Running; and in
\* every state that is Running or Paused at least two players are alive
C19_RoundEndsWhenOneIsLeft ==
    /\ [][FrameRuns /\ Len(players) >= 2 =>
            /\ Len(players') = Len(players)
            /\ Living(players') <= 1
                 => /\ lastFrame'.roundEnd
                    /\ gameState' \in {"GameOver", "SessionOver"}
                    /\ Len(finalRanking') = Len(players')
                    /\ TotalGain(Len(players)) > 0
                    /\ lastScores' = [i \in 1..Len(players') |-> players'[i].score]
            /\ Living(players') >= 2
                 => /\ ~lastFrame'.roundEnd
                    /\ gameState' = "Running"
                    /\ TotalGain(Len(players)) = 0
                    /\ UNCHANGED <<lastScores, finalRanking>>]_vars
    /\ [](gameState \in {"Running", "Paused"} /\ Len(players) >= 2
            => Living(players) >= 2)

\* a frame has ended a round of three players in which two of them died in
\* that same frame
C19_Witness ==
    /\ lastFrame.ran /\ lastFrame.roundEnd
    /\ gameState = "GameOver"
    /\ Len(players) = 3
    /\ Living(players) = 1
    /\ roundFrames = 1

\* C20: while the players of a Classic round exist, activePowerups is empty,
\* no power-up id has been handed out and every player's activeEffects is
\* empty; a Running frame of a Classic round spawns nothing, despawns nothing
\* and applies nothing
C20_ClassicHasNoPowerups ==
    /\ [](selectedGameMode = "Classic" /\ InRound
            => /\ activePowerups = <<>>
               /\ nextPowerupId = 0
               /\ \A i \in 1..Len(players) : players[i].activeEffects = NoEffects)
    /\ [][FrameRuns /\ selectedGameMode = "Classic"
            => /\ lastFrame'.applied = <<>>
               /\ lastFrame'.despawned = {}
               /\ UNCHANGED <<activePowerups, nextPowerupId>>]_vars

\* a frame of a Classic round has run more than the spawn interval after the
\* round's first frame, with a living head where the power-ups would appear
C20_Witness ==
    /\ lastFrame.ran
    /\ selectedGameMode = "Classic"
    /\ lastPowerupSpawnTime # 0
    /\ now - lastPowerupSpawnTime > POWERUP_SPAWN_INTERVAL
    /\ \E i \in 1..Len(players) :
           /\ players[i].isAlive
           /\ OverlapsCollected(players[i], [x |-> 50, y |-> 1500,
                                             radius |-> POWERUP_DEFAULT_RADIUS])

\* C21: in every state every player's path is non-empty, starts with a point
\* and has no two adjacent gap markers
C21_PathWellFormed ==
    \A i \in 1..Len(players) :
        /\ Len(players[i].path) >= 1
        /\ ~players[i].path[1].gap
        /\ \A k \in 1..Len(players[i].path) - 1 :
               ~(players[i].path[k].gap /\ players[i].path[k + 1].gap)

\* a frame has cleared the trail of a player that is making a hole: the gap
\* marker at the end of its path has given way to its current position
C21_Witness ==
    /\ lastFrame.ran
    /\ \E i \in 1..Len(players) :
           /\ players[i].isMakingHole
           /\ players[i].holeTimer < HOLE_DURATION_FRAMES
           /\ \E k \in 1..Len(lastFrame.applied) :
                  /\ lastFrame.applied[k].type = "CLEAR_OWN_TRAIL"
                  /\ lastFrame.applied[k].by = i
           /\ players[i].path = <<Point(players[i].x, players[i].y)>>

\* player q is a target of the one power-up this frame applies: the collector
\* for a self effect; for SLOW_OTHERS every other player alive when the effect
\* is applied, which for a player updated before the collector is its state
\* after this frame and for a player updated after it its state before
IsTarget(q) ==
    LET a == lastFrame'.applied[1]
    IN  IF a.type = "SLOW_OTHERS"
        THEN /\ q # a.by
             /\ IF q < a.by THEN players'[q].isAlive ELSE players[q].isAlive
        ELSE q = a.by

\* entry k of player q's activeEffects if nothing is collected in this frame:
\* unchanged for a dead player, removed once expired for a living one
Uncollected(q, k) ==
    IF players[q].isAlive /\ players[q].activeEffects[k] # 0
       /\ now >= players[q].activeEffects[k]
    THEN 0 ELSE players[q].activeEffects[k]

\* C22: a Running frame that applies one timed power-up sets the entry of
\* that kind to now + duration(kind) on each target, whatever the entry was
\* before, and leaves every other entry of every player as it would be
\* without the collection
C22_TimedEffectOnTargetsOnly ==
    [][/\ FrameRuns
       /\ Len(lastFrame'.applied) = 1
       /\ lastFrame'.applied[1].type \in TimedKinds
       => \A q \in 1..Len(players) : \A k \in TimedKinds :
              players'[q].activeEffects[k] =
                  IF k = lastFrame'.applied[1].type /\ IsTarget(q)
                  THEN now + DURATION_MS(k)
                  ELSE Uncollected(q, k)]_vars

\* a frame has applied SLOW_OTHERS collected by player 2: living player 3 is
\* slowed until now + 5000, dead player 1 and the collector are not
C22_Witness ==
    /\ lastFrame.ran
    /\ Len(players) = 3
    /\ Len(lastFrame.applied) = 1
    /\ lastFrame.applied[1].type = "SLOW_OTHERS"
    /\ lastFrame.applied[1].by = 2
    /\ ~players[1].isAlive
    /\ players[1].activeEffects["SLOW_OTHERS"] = 0
    /\ players[2].activeEffects["SLOW_OTHERS"] = 0
    /\ players[3].isAlive
    /\ players[3].activeEffects["SLOW_OTHERS"] = now + 5000

\* the speed of player i in this frame when only unexpired effects count
UnexpiredSpeed(i) ==
    LET boosted == IF Uncollected(i, "SPEED_BOOST") # 0 THEN (20 * 150) \div 100 ELSE 20
    IN  IF Uncollected(i, "SLOW_OTHERS") # 0 THEN (boosted * 70) \div 100 ELSE boosted

\* the turn of player i in this frame when only an unexpired reversal counts
UnexpiredTurn(i) ==
    LET swapped == Uncollected(i, "REVERSE_CONTROLS") # 0
        leftKey == IF swapped THEN playerControls[i].right ELSE playerControls[i].left
        rightKey == IF swapped THEN playerControls[i].left ELSE playerControls[i].right
    IN  (IF rightKey \in keyStates THEN 1 ELSE 0) - (IF leftKey \in keyStates THEN 1 ELSE 0)

\* C23: after a Running frame a player that was alive before it has no
\* activeEffects entry with expiry <= now; and in a frame without SLOW_OTHERS
\* collection its turn, its step length and its immunity are those given by
\* the entries that had not expired: a player whose INVINCIBLE and GHOST_MODE
\* entries are absent or expired and that makes no hole dies when its head
\* leaves the field
C23_ExpiredEffectsAreNotUsed ==
    [][FrameRuns =>
         \A i \in 1..Len(players) :
             players[i].isAlive
             => /\ \A k \in TimedKinds :
                       players'[i].activeEffects[k] = 0 \/ players'[i].activeEffects[k] > now
                /\ (\A a \in 1..Len(lastFrame'.applied) :
                        lastFrame'.applied[a].type # "SLOW_OTHERS")
                   => /\ players'[i].angle = (players[i].angle + UnexpiredTurn(i) + 120) % 120
                      /\ players'[i].x - players[i].x
                           = RoundDiv(Cos1000(players'[i].angle) * UnexpiredSpeed(i), 1000)
                      /\ players'[i].y - players[i].y
                           = RoundDiv(Sin1000(players'[i].angle) * UnexpiredSpeed(i), 1000)
                      /\ /\ Uncollected(i, "INVINCIBLE") = 0
                         /\ Uncollected(i, "GHOST_MODE") = 0
                         /\ ~players'[i].isMakingHole
                         /\ players'[i].x + 50 > playableWidth
                         => ~players'[i].isAlive]_vars

\* a frame has run after the effect of the first power-up, which player 1
\* collected, has run out, while the second power-up lies uncollected
C23_Witness ==
    /\ lastFrame.ran
    /\ players[1].isAlive
    /\ players[1].activeEffects = NoEffects
    /\ nextPowerupId = 2
    /\ Len(activePowerups) = 1
    /\ activePowerups[1].id = 1

\* the one power-up this frame applies is of this type
AppliesOnly(type) ==
    /\ FrameRuns
    /\ Len(lastFrame'.applied) = 1
    /\ lastFrame'.applied[1].type = type

\* the path of player q after this frame is its path before, with at most one
\* entry appended by its update
PathOnlyExtended(q) ==
    /\ IsPrefix(players[q].path, players'[q].path)
    /\ Len(players'[q].path) <= Len(players[q].path) + 1

\* C24: a Running frame that applies one CLEAR_OWN_TRAIL leaves the collector
\* with a path of exactly one entry, which is a point: the entry its update
\* pushed in this frame, or, when the update pushed or found a gap marker, its
\* current position, and these are the same point; every other player's path
\* is only extended by its own update, and every activeEffects entry is what
\* it would be without the collection
C24_ClearLeavesOnePoint ==
    [][AppliesOnly("CLEAR_OWN_TRAIL") =>
         LET c == lastFrame'.applied[1].by
         IN  /\ Len(players'[c].path) = 1
             /\ ~players'[c].path[1].gap
             /\ players'[c].path[1].x = players'[c].x
             /\ players'[c].path[1].y = players'[c].y
             /\ \A q \in 1..Len(players) :
                    /\ q # c => PathOnlyExtended(q)
                    /\ \A k \in TimedKinds :
                           players'[q].activeEffects[k] = Uncollected(q, k)]_vars

\* a frame has cleared the trail of player 1, which makes no hole and has
\* moved before, while player 2 keeps a trail of several points
C24_Witness ==
    /\ lastFrame.ran
    /\ roundFrames >= 2
    /\ Len(lastFrame.applied) = 1
    /\ lastFrame.applied[1].type = "CLEAR_OWN_TRAIL"
    /\ lastFrame.applied[1].by = 1
    /\ ~players[1].isMakingHole
    /\ Len(players[1].path) = 1
    /\ Len(players[2].path) >= 3

\* (x, y) lies in the range initializeGame places the players in
InSafeZone(x, y) ==
    /\ SafeZone(playableWidth, ClientHeight).minX <= x
    /\ x <= SafeZone(playableWidth, ClientHeight).maxX
    /\ SafeZone(playableWidth, ClientHeight).minY <= y
    /\ y <= SafeZone(playableWidth, ClientHeight).maxY

\* C25: a Running frame that applies one RANDOM_TELEPORT leaves the collector's
\* head inside the safe zone of round-start placement; the last entry of its
\* path is that new position, written over the entry its update pushed or
\* found there, so the path is as long as after the update and all earlier
\* entries are kept; its heading is the one its update gave it; every other
\* player has only made its own step, its path is only extended by its own
\* update and its activeEffects are what they would be without the collection
C25_TeleportOverwritesLastEntry ==
    [][AppliesOnly("RANDOM_TELEPORT") =>
         LET c == lastFrame'.applied[1].by
             before == players[c].path
             after == players'[c].path
         IN  /\ InSafeZone(players'[c].x, players'[c].y)
             /\ Last(after) = Point(players'[c].x, players'[c].y)
             /\ Len(after) = IF players'[c].isMakingHole /\ Last(before).gap
                             THEN Len(before) ELSE Len(before) + 1
             /\ \A k \in 1..Len(after) - 1 : after[k] = before[k]
             /\ players'[c].angle = (players[c].angle + UnexpiredTurn(c) + 120) % 120
             /\ \A q \in 1..Len(players) :
                    /\ q # c => /\ PathOnlyExtended(q)
                                /\ players'[q].angle = players[q].angle
                                /\ players'[q].x = players[q].x
                                /\ players'[q].y - players[q].y \in {-20, 0, 20}
                    /\ \A k \in TimedKinds :
                           players'[q].activeEffects[k] = Uncollected(q, k)]_vars

\* a frame has teleported player 1, which makes no hole, away from where its
\* update had taken it: the last path entry is the new position, the entry
\* before it lies more than one step away
C25_Witness ==
    /\ lastFrame.ran
    /\ Len(lastFrame.applied) = 1
    /\ lastFrame.applied[1].type = "RANDOM_TELEPORT"
    /\ lastFrame.applied[1].by = 1
    /\ ~players[1].isMakingHole
    /\ Len(players[1].path) >= 3
    /\ Last(players[1].path) = Point(players[1].x, players[1].y)
    /\ players[1].path[Len(players[1].path) - 1].y - players[1].y > 30

\* C26: whenever gameState is Running, Paused, GameOver or SessionOver a
\* game mode is selected, and no step taken outside WaitingToStart changes the
\* selected mode or the selected player count
C26_ModeSelectedAndFrozenInGame ==
    /\ [](InRound => selectedGameMode \in {"Classic", "Arcade"})
    /\ [][gameState # "WaitingToStart"
            => UNCHANGED <<selectedGameMode, selectedPlayerCount>>]_vars

\* a round of four players, one more than can be reached by one click from
\* the default, is paused with its mode selected
C26_Witness ==
    /\ gameState = "Paused"
    /\ selectedGameMode = "Classic"
    /\ selectedPlayerCount = 4
    /\ Len(players) = 4

\* C27: no step taken while gameState is Running, Paused, GameOver or
\* SessionOver changes a control key; a control key changes only while a
\* binding is pending in WaitingToStart, and then only the pending player's
\* pending direction; and no control key is ever Space or Enter
C27_RebindingOnlyInMenu ==
    /\ [][/\ gameState # "WaitingToStart" => UNCHANGED playerControls
          /\ playerControls' # playerControls
               => /\ gameState = "WaitingToStart"
                  /\ waitingForKeyBinding # NoBinding
                  /\ \A i \in DOMAIN playerControls :
                         /\ i # waitingForKeyBinding.playerId
                              => playerControls'[i] = playerControls[i]
                         /\ waitingForKeyBinding.direction # "left"
                              => playerControls'[i].left = playerControls[i].left
                         /\ waitingForKeyBinding.direction # "right"
                              => playerControls'[i].right = playerControls[i].right]_vars
    /\ [](\A i \in DOMAIN playerControls :
              /\ playerControls[i].left \notin {" ", "spacebar", "enter"}
              /\ playerControls[i].right \notin {" ", "spacebar", "enter"})
    /\ [](gameState # "WaitingToStart" => waitingForKeyBinding = NoBinding)

\* a round is running with player 1's left key rebound to x and the x key
\* held down
C27_Witness ==
    /\ gameState = "Running"
    /\ lastFrame.ran
    /\ playerControls[1].left = "x"
    /\ "x" \in keyStates

\* C28: every player's heading lies in 0 .. 119 (units of turnSpeed = PI/60,
\* so 120 is 2*PI) in every state; a Running frame leaves the heading of a
\* living player unchanged when both or neither of its keys are down, takes
\* one unit off when only its left key is down and adds one when only its
\* right key is down, wrapping around at 0 and at 2*PI
C28_HeadingInRange ==
    /\ [](\A i \in 1..Len(players) : 0 <= players[i].angle /\ players[i].angle < 120)
    /\ [][FrameRuns /\ selectedGameMode = "Classic" =>
            \A i \in 1..Len(players) :
                players[i].isAlive =>
                    LET left == playerControls[i].left \in keyStates
                        right == playerControls[i].right \in keyStates
                        old == players[i].angle
                    IN  players'[i].angle =
                          IF left = right THEN old
                          ELSE IF left THEN (IF old = 0 THEN 119 ELSE old - 1)
                          ELSE (IF old = 119 THEN 0 ELSE old + 1)]_vars

\* a frame has run with both keys of living player 1 held down after an
\* earlier frame turned it left from heading 0 to the last heading below 2*PI
C28_Witness ==
    /\ lastFrame.ran
    /\ roundFrames >= 2
    /\ players[1].isAlive
    /\ players[1].angle = 119
    /\ players[1].path[1].x < players[1].x
    /\ {"arrowleft", "arrowright"} \subseteq keyStates

\* the head circle of the player reaches beyond an edge of the field
HeadOutside(player) ==
    \/ player.x - 50 < 0
    \/ player.x + 50 > playableWidth
    \/ player.y - 50 < 0
    \/ player.y + 50 > ClientHeight

\* the players as player i's collision check sees them in this frame: those
\* before it in the list already updated, those after it not yet
SeenBy(i) == [q \in 1..Len(players) |-> IF q <= i THEN players'[q] ELSE players[q]]

\* C29: in a Running frame a player that was alive and is not immune after
\* its move, and whose head circle reaches beyond an edge, is dead after the
\* frame and has been appended to eliminationOrder in it; one whose head
\* circle lies inside the field, touching an edge or not, and that is dead
\* after the frame has hit a trail
C29_BoundaryEliminates ==
    [][FrameRuns =>
         \A i \in 1..Len(players) :
             players[i].isAlive /\ ~IsImmune(players'[i])
             => /\ HeadOutside(players'[i])
                     => /\ ~players'[i].isAlive
                        /\ Occurrences(eliminationOrder, i) = 0
                        /\ Occurrences(eliminationOrder', i) = 1
                /\ ~HeadOutside(players'[i]) /\ ~players'[i].isAlive
                     => HitsTrail(players'[i], SeenBy(i))]_vars

\* a frame has eliminated player 1 at the lower edge of the field after a
\* long straight run during which its head touched both side edges
C29_Witness ==
    /\ lastFrame.ran
    /\ ~players[1].isAlive
    /\ players[1].x = 50
    /\ players[1].y + 50 > ClientHeight
    /\ players[1].y - PLAYER_SPEED + 50 <= ClientHeight
    /\ eliminationOrder[1] = 1

\* some point of a path player i's collision check sees in this frame, its
\* own path counted only up to the entries older than the 20 most recent, is
\* no gap marker and lies at a squared distance below the square of the sum of
\* the radii from player i's head
TrailPointInReach(i) ==
    \E q \in 1..Len(players) :
        \E k \in 1..Len(SeenBy(i)[q].path) :
            /\ q = i => k <= Len(SeenBy(i)[q].path) - 20
            /\ ~SeenBy(i)[q].path[k].gap
            /\ (players'[i].x - SeenBy(i)[q].path[k].x) * (players'[i].x - SeenBy(i)[q].path[k].x)
                 + (players'[i].y - SeenBy(i)[q].path[k].y) * (players'[i].y - SeenBy(i)[q].path[k].y)
                 < (50 + 50) * (50 + 50)

\* C30: in a Running frame a player that was alive, is not immune after its
\* move and has its head inside the field is eliminated exactly when a
\* non-gap point of some player's path, dead or alive, its own path counted
\* only beyond the 20 most recent entries, lies at a squared distance
\* strictly below (radius + radius)^2 from its head
C30_TrailHitIffPointInReach ==
    [][FrameRuns =>
         \A i \in 1..Len(players) :
             /\ players[i].isAlive
             /\ ~IsImmune(players'[i])
             /\ ~HeadOutside(players'[i])
             /\ \A a \in 1..Len(lastFrame'.applied) : lastFrame'.applied[a].by # i
             => (~players'[i].isAlive <=> TrailPointInReach(i))]_vars

\* a frame has eliminated player 1 on the trail of dead player 3, one frame
\* after its head passed at exactly the sum of the radii from that trail
C30_Witness ==
    /\ lastFrame.ran
    /\ roundFrames = 2
    /\ Len(players) = 3
    /\ ~players[3].isAlive
    /\ ~players[1].isAlive
    /\ eliminationOrder = <<3, 1>>
    /\ players[3].path[1].y - players[1].y = 80
    /\ players[3].path[1].y - players[1].path[2].y = 100

\* playable widths and heights (tenths of a pixel, even so that the midpoint
\* is a whole number): negative, zero, below, at and above twice the buffer
PlayableDimensions == {-200, 0, 100, 2000, 2292, 2294, 3000, 5000}

\* results of Math.random(), in percent
RandomFractions == {0, 50, 99}

\* the spawn range for a playable area of w by h is not inverted; an axis
\* whose dimension is at most twice the buffer has collapsed to the
\* midpoint; when both dimensions exceed twice the buffer every position
\* drawn from the range keeps the buffer to all four edges
SpawnRangeIsSound(w, h) ==
    LET zone == SafeZone(w, h)
    IN  /\ zone.minX <= zone.maxX
        /\ zone.minY <= zone.maxY
        /\ 2 * SAFE_ZONE_BUFFER >= w => zone.minX = w \div 2 /\ zone.maxX = w \div 2
        /\ 2 * SAFE_ZONE_BUFFER >= h => zone.minY = h \div 2 /\ zone.maxY = h \div 2
        /\ w > 2 * SAFE_ZONE_BUFFER /\ h > 2 * SAFE_ZONE_BUFFER
             => \A fx \in RandomFractions, fy \in RandomFractions :
                    /\ RandomBetween(zone.minX, zone.maxX, fx) >= SAFE_ZONE_BUFFER
                    /\ RandomBetween(zone.minX, zone.maxX, fx) <= w - SAFE_ZONE_BUFFER
                    /\ RandomBetween(zone.minY, zone.maxY, fy) >= SAFE_ZONE_BUFFER
                    /\ RandomBetween(zone.minY, zone.maxY, fy) <= h - SAFE_ZONE_BUFFER

\* C31: for every playable width and height the spawn range of round-start
\* placement and of teleport is not inverted, an axis whose dimension is at
\* most twice SAFE_ZONE_BUFFER collapses to the midpoint of the dimension,
\* and when both dimensions exceed twice the buffer every spawn position is
\* at least the buffer away from every edge; the players of a round that has
\* just been initialized stand inside the range of the actual playable area,
\* at the midpoint of an axis that has collapsed
C31_SpawnRangeNeverInverted ==
    /\ \A w \in PlayableDimensions, h \in PlayableDimensions : SpawnRangeIsSound(w, h)
    /\ SpawnRangeIsSound(playableWidth, ClientHeight)
    /\ gameState = "Running" /\ roundFrames = 0
         => \A i \in 1..Len(players) :
                /\ InSafeZone(players[i].x, players[i].y)
                /\ 2 * SAFE_ZONE_BUFFER >= playableWidth => players[i].x = playableWidth \div 2
                /\ 2 * SAFE_ZONE_BUFFER >= ClientHeight => players[i].y = ClientHeight \div 2

\* a round has just been initialized in a playable area narrower than twice
\* the buffer and higher than twice the buffer: the players stand at the
\* midpoint of the width, at different heights inside the buffer
C31_Witness ==
    /\ gameState = "Running"
    /\ roundFrames = 0
    /\ 2 * SAFE_ZONE_BUFFER >= playableWidth
    /\ ClientHeight > 2 * SAFE_ZONE_BUFFER
    /\ Len(players) = 2
    /\ players[1].x = playableWidth \div 2
    /\ players[2].x = playableWidth \div 2
    /\ players[1].y > players[2].y
    /\ players[2].y >= SAFE_ZONE_BUFFER
    /\ players[1].y <= ClientHeight - SAFE_ZONE_BUFFER

\* C32: between steps every player has isMakingHole exactly when its
\* holeTimer is positive, and the timer lies in 0..11; in a Running frame the
\* update of a living player that begins with isMakingHole decrements the
\* timer by one, and a hole starts (the timer is set to 11) only in an update
\* in which the player was not making a hole or its hole has just run out
C32_HoleTimerTracksHole ==
    /\ [](\A i \in 1..Len(players) :
              /\ players[i].isMakingHole <=> players[i].holeTimer > 0
              /\ players[i].holeTimer >= 0
              /\ players[i].holeTimer <= 11)
    /\ [][FrameRuns =>
            \A i \in 1..Len(players) :
                players[i].isAlive =>
                    /\ players[i].isMakingHole /\ players[i].holeTimer > 1
                         => players'[i].holeTimer = players[i].holeTimer - 1
                    /\ players[i].isMakingHole /\ players[i].holeTimer = 1
                         => players'[i].holeTimer \in {0, 11}
                    /\ ~players[i].isMakingHole
                         => players'[i].holeTimer \in {0, 11}]_vars

\* player 1's first hole has run out in the twelfth frame and its second hole
\* has started in the same update, so no point was pushed since the first
\* frame: the path is the spawn point and one gap marker
C32_Witness ==
    /\ lastFrame.ran
    /\ roundFrames = 12
    /\ players[1].isAlive
    /\ players[1].isMakingHole
    /\ players[1].holeTimer = 11
    /\ players[1].y - players[1].path[1].y = 12 * PLAYER_SPEED
    /\ Len(players[1].path) = 2
    /\ players[1].path[2].gap

\* C33: waitingForKeyBinding is non-null only while gameState is
\* WaitingToStart, and no step taken while it is non-null, a press of Space
\* included, leaves the menu or creates players: the game never is Running
\* with a binding request pending
C33_BindingPendingOnlyInMenu ==
    /\ [](waitingForKeyBinding # NoBinding => gameState = "WaitingToStart")
    /\ [](gameState = "Running" => waitingForKeyBinding = NoBinding)
    /\ [][waitingForKeyBinding # NoBinding
            => gameState' = "WaitingToStart" /\ players' = players]_vars

\* in the menu, with a mode selected, a binding request for player 2 is
\* pending after player 1's left key has been rebound: Space would start the
\* game here if no request were pending
C33_Witness ==
    /\ gameState = "WaitingToStart"
    /\ selectedGameMode = "Classic"
    /\ waitingForKeyBinding = [playerId |-> 2, direction |-> "left"]
    /\ playerControls[1].left = "x"
    /\ players = <<>>

\* C34: in a round of one player the round-end block never runs: whatever
\* happens to the player, a step taken in Running or Paused leads to Running
\* or Paused, the player's score stays 0 and lastScores stays empty, so that
\* neither GameOver nor SessionOver is reached
C34_SinglePlayerRoundNeverEnds ==
    /\ [](Len(players) = 1
            => /\ gameState \in {"Running", "Paused"}
               /\ players[1].score = 0
               /\ lastScores = <<>>)
    /\ [][Len(players) = 1
            => /\ gameState' \in {"Running", "Paused"}
               /\ Len(players') = 1
               /\ ~lastFrame'.roundEnd]_vars

\* the only player of a round has been eliminated two or more frames ago and
\* the game is still Running, with no score and no lastScores entry
C34_Witness ==
    /\ gameState = "Running"
    /\ selectedPlayerCount = 1
    /\ Len(players) = 1
    /\ ~players[1].isAlive
    /\ eliminationOrder = <<1>>
    /\ lastFrame.ran
    /\ roundFrames >= 3
    /\ players[1].score = 0
    /\ lastScores = <<>>

\* C35: a Running frame in Arcade mode spawns at most one power-up, and it
\* spawns one only if more than POWERUP_SPAWN_INTERVAL of non-paused time has
\* passed since the previous spawn of the round or, when the round has had no
\* spawn, since its first Running frame, whatever pauses and resumes have
\* come between the frames or before the first one
C35_SpawnOnlyAfterInterval ==
    [][FrameRuns /\ selectedGameMode = "Arcade" =>
         /\ nextPowerupId' \in {nextPowerupId, nextPowerupId + 1}
         /\ Len(activePowerups') <= Len(activePowerups) + 1
         /\ nextPowerupId' # nextPowerupId
              => /\ spawnClock # NoTime
                 /\ playClock - spawnClock > POWERUP_SPAWN_INTERVAL]_vars

\* the ids the step has appended to eliminationOrder
NewlyEliminated ==
    SubSeq(eliminationOrder', Len(eliminationOrder) + 1, Len(eliminationOrder'))

\* C36: the players eliminated in one Running frame are appended to
\* eliminationOrder in ascending list order, after the ids that were there;
\* when the frame ends the round, of two players eliminated in it the one
\* with the higher list index has the better rank, and when it leaves no
\* survivor the eliminated player with the highest list index is first in the
\* ranking and gains 3 points
C36_SameStepEliminationsInListOrder ==
    [][FrameRuns =>
         /\ IsPrefix(eliminationOrder, eliminationOrder')
         /\ \A a, b \in 1..Len(NewlyEliminated) :
                a < b => NewlyEliminated[a] < NewlyEliminated[b]
         /\ {NewlyEliminated[a] : a \in 1..Len(NewlyEliminated)}
              = {i \in 1..Len(players) : players[i].isAlive /\ ~players'[i].isAlive}
         /\ lastFrame'.roundEnd
              => /\ \A a, b \in 1..Len(NewlyEliminated) :
                        a < b => PositionIn(finalRanking', NewlyEliminated[b])
                                   < PositionIn(finalRanking', NewlyEliminated[a])
                 /\ (\A i \in 1..Len(players) : ~players'[i].isAlive)
                      => \A i \in 1..Len(players) :
                             (players[i].isAlive /\ \A q \in 1..Len(players) :
                                                        players[q].isAlive => q <= i)
                             => /\ finalRanking'[1] = i
                                /\ players'[i].score = players[i].score + 3]_vars

\* both players of a round have been eliminated in its first frame, player 1
\* before player 2: player 2 is ranked first and has gained 3 points, player
\* 1 is second with 2 points
C36_Witness ==
    /\ lastFrame.roundEnd
    /\ Len(players) = 2
    /\ roundFrames = 1
    /\ ~players[1].isAlive
    /\ ~players[2].isAlive
    /\ eliminationOrder = <<1, 2>>
    /\ finalRanking = <<2, 1>>
    /\ players[2].score = 3
    /\ players[1].score = 2

\* C37: a step that initializes a round, from the menu or from GameOver,
\* leaves every player alive, with no active effect, not making a hole,
\* holeTimer 0 and a path that is exactly its spawn point; activePowerups and
\* eliminationOrder are empty and the power-up id counter is 0; the score is
\* the only thing taken from the round before (0 when started from the menu)
C37_OnlyScoreCarriesOver ==
    [][RoundStarts =>
         /\ Len(players') = selectedPlayerCount
         /\ \A i \in 1..Len(players') :
                /\ players'[i].isAlive
                /\ players'[i].activeEffects = NoEffects
                /\ ~players'[i].isMakingHole
                /\ players'[i].holeTimer = 0
                /\ players'[i].path = <<Point(players'[i].x, players'[i].y)>>
                /\ players'[i].score = IF gameState = "GameOver" THEN players[i].score ELSE 0
         /\ activePowerups' = <<>>
         /\ eliminationOrder' = <<>>
         /\ nextPowerupId' = 0]_vars

\* a second round has just been initialized after a round that player 1 won:
\* the scores 3 and 2 are there, every other trace of the first round is gone
C37_Witness ==
    /\ gameState = "Running"
    /\ roundFrames = 0
    /\ Len(players) = 2
    /\ players[1].score = 3
    /\ players[2].score = 2
    /\ lastScores = <<3, 2>>
    /\ finalRanking = <<1, 2>>
    /\ \A i \in 1..2 : players[i].isAlive /\ players[i].activeEffects = NoEffects
    /\ activePowerups = <<>>
    /\ eliminationOrder = <<>>
    /\ nextPowerupId = 0

\* C38: a step that is not a round end leaves the score of every player
\* that exists before and after it unchanged, be it a frame with or without
\* a power-up collection, a pause, a resume or a restart; no step lowers a
\* score while the players of the session exist; and whenever gameState is
\* GameOver or SessionOver lastScores maps exactly the ids of the round's
\* players to their scores
C38_ScoresChangeOnlyAtRoundEnd ==
    /\ [](gameState \in {"GameOver", "SessionOver"}
            => /\ DOMAIN lastScores = {players[i].id : i \in 1..Len(players)}
               /\ \A i \in 1..Len(players) : lastScores[players[i].id] = players[i].score)
    /\ [][\A i \in (1..Len(players)) \cap (1..Len(players')) :
              /\ players'[i].score >= players[i].score
              /\ ~lastFrame'.roundEnd => players'[i].score = players[i].score]_vars

\* a second round, begun with the scores 3 and 2, is in GameOver after a
\* frame in which player 1 was invincible; player 1 has won again: the scores
\* 6 and 4 are what lastScores holds
C38_Witness ==
    /\ gameState = "GameOver"
    /\ lastFrame.roundEnd
    /\ Len(players) = 2
    /\ players[1].activeEffects["INVINCIBLE"] # 0
    /\ players[1].score = 6
    /\ players[2].score = 4
    /\ lastScores = <<6, 4>>

\* C39: pauseStartTime is non-null exactly while gameState is Paused; the
\* step into Paused records the current time and nothing changes the record
\* while Paused; the step out of Paused clears it and adds one duration, the
\* current time minus the recorded time, which is not negative, to every
\* effect expiry of every player, to the createdAt of every active power-up
\* and to lastPowerupSpawnTime, and changes nothing else about them
C39_PauseBookkeepingConsistent ==
    /\ [](pauseStartTime # NoTime <=> gameState = "Paused")
    /\ [][/\ gameState # "Paused" /\ gameState' = "Paused" => pauseStartTime' = now
          /\ gameState = "Paused" /\ gameState' = "Paused" => pauseStartTime' = pauseStartTime
          /\ gameState = "Paused" /\ gameState' # "Paused"
               => /\ gameState' = "Running"
                  /\ now - pauseStartTime >= 0
                  /\ lastResume' = now - pauseStartTime
                  /\ lastPowerupSpawnTime' = lastPowerupSpawnTime + (now - pauseStartTime)
                  /\ Len(activePowerups') = Len(activePowerups)
                  /\ \A j \in 1..Len(activePowerups) :
                         activePowerups'[j] =
                            [activePowerups[j] EXCEPT !.createdAt = @ + (now - pauseStartTime)]
                  /\ Len(players') = Len(players)
                  /\ \A i \in 1..Len(players) : \A k \in TimedKinds :
                         players'[i].activeEffects[k] =
                            IF players[i].activeEffects[k] = 0 THEN 0
                            ELSE players[i].activeEffects[k] + (now - pauseStartTime)]_vars

\* a pause of 5000 ms has just ended while player 1's effect was running:
\* the expiry and the spawn reference have been moved by 5000, so that the
\* effect has as much time left as the clock showed when the pause began
C39_Witness ==
    /\ gameState = "Running"
    /\ pauseStartTime = NoTime
    /\ lastResume = 5000
    /\ lastPowerupSpawnTime = now
    /\ nextPowerupId = 1
    /\ activePowerups = <<>>
    /\ players[1].activeEffects["THIN_TRAIL"] = now + DURATION_MS("THIN_TRAIL")

====
